---- MODULE Spec2Model ----
(***************************************************************************)
(* smtpbound: an SMTP listener that parses each received message and       *)
(* forwards it through the Inbound emails.send API (src/src/index.ts).     *)
(*                                                                         *)
(* The module models the configuration read at startup, the life of a      *)
(* session of the SMTPServer (connect, AUTH, MAIL FROM, RCPT TO, DATA,     *)
(* close), the asynchronous onData handler with its two suspension points  *)
(* (await simpleParser, await inbound.emails.send), and the pure helpers   *)
(* the handler calls.                                                      *)
(***************************************************************************)
EXTENDS Integers, Sequences, FiniteSets, TLC

VARIABLES
    cfg,        \* the process configuration (index.ts:10-24), fixed after startup
    phase,      \* per session: protocol state of the connection
    secure,     \* per session: session.secure
    user,       \* per session: session.user, set by a successful AUTH
    lastAuth,   \* per session: what the last AUTH command did
    envelope,   \* per session: session.envelope (mailFrom, rcptTo)
    pc,         \* per session: position of the onData handler
    chunks,     \* per session: the handler's chunks array
    raw,        \* per session: Buffer.concat(chunks), taken at the end event
    payload,    \* per session: the payload built for inbound.emails.send
    built,      \* per session: payloads built in the current data phase
    sends,      \* per session: inbound.emails.send calls of the current data phase
    outcome,    \* per session: how the current data phase's processing went
    replies,    \* per session: arguments of the callback calls of the current data phase
    log,        \* per session: console lines written since the transaction began
    fnIn,       \* input of the pure function under check
    fnOut,      \* its result
    processEnv, \* process.env as the process reads it at startup
    files,      \* the TLS files on disk: which paths are readable, what they hold
    proc        \* the process: position of its startup, exit, loaded TLS material

vars == <<cfg, phase, secure, user, lastAuth, envelope, pc, chunks, raw,
          payload, built, sends, outcome, replies, log, fnIn, fnOut, processEnv, files, proc>>

procVars == <<processEnv, files, proc>>

sessionVars == <<phase, secure, user, lastAuth, envelope, pc, chunks, raw,
                 payload, built, sends, outcome, replies, log>>

(***************************************************************************)
(* Bounds of the model.                                                    *)
(***************************************************************************)
MaxChunks == 2      \* data events per data phase
MaxRcpt == 2        \* RCPT TO commands per transaction

MaxEntries == 2     \* address entries of one header in the normalizer's inputs
MaxHeaders == 2     \* entries of mail.headers in the header filter's inputs
MaxBytes == 3       \* content bytes of an attachment in mapAttachments' inputs

Sessions == {"s1", "s2"}

(***************************************************************************)
(* JavaScript values.  Strings that may be absent use Undefined; the       *)
(* status fields of an error, which may hold a number or a string, are     *)
(* tagged.                                                                 *)
(***************************************************************************)
Undefined == "undefined"

TruthyDefined(x) == x # Undefined

Truthy(x) == x # Undefined /\ x # ""

\* a || b on strings
OrElse(a, b) == IF Truthy(a) THEN a ELSE b

JsUndef == [t |-> "undefined", n |-> 0, s |-> ""]
JsNum(n) == [t |-> "number", n |-> n, s |-> ""]
JsStr(s) == [t |-> "string", n |-> 0, s |-> s]

JsTruthy(v) ==
    \/ v.t = "number" /\ v.n # 0
    \/ v.t = "string" /\ v.s # ""

\* a || b on tagged values
JsOr(a, b) == IF JsTruthy(a) THEN a ELSE b

(***************************************************************************)
(* Configuration (index.ts:10-24).                                         *)
(***************************************************************************)
SMTP_SECURE == cfg.SMTP_SECURE
SMTP_AUTH_ENABLED == cfg.SMTP_AUTH_ENABLED
SMTP_AUTH_USER == cfg.SMTP_AUTH_USER
SMTP_AUTH_PASS == cfg.SMTP_AUTH_PASS
DEFAULT_FROM == cfg.DEFAULT_FROM
LOG_LEVEL == cfg.LOG_LEVEL

\* index.ts:72-78: with auth enabled the process exits unless both are set
AuthConfigValid(c) ==
    c.SMTP_AUTH_ENABLED => (Truthy(c.SMTP_AUTH_USER) /\ Truthy(c.SMTP_AUTH_PASS))

Configs ==
    { c \in [ SMTP_SECURE : BOOLEAN,
              SMTP_AUTH_ENABLED : BOOLEAN,
              SMTP_AUTH_USER : {Undefined, "user"},
              SMTP_AUTH_PASS : {Undefined, "pass"},
              DEFAULT_FROM : {Undefined, "default@x"},
              LOG_LEVEL : {"info", "silent"} ] :
        /\ AuthConfigValid(c)
        /\ (c.SMTP_AUTH_USER = Undefined) = (c.SMTP_AUTH_PASS = Undefined) }

\* index.ts:81-84
disabledCommandsStartTlsWithCert ==
    (IF Truthy(processEnv.TLS_CERT_PATH) /\ Truthy(processEnv.TLS_KEY_PATH)
     THEN {} ELSE {"STARTTLS"})
    \cup (IF ~SMTP_AUTH_ENABLED THEN {"AUTH"} ELSE {})

disabledCommandsNoAuth == {"STARTTLS"}

disabledCommands ==
    {"STARTTLS"} \cup (IF ~SMTP_AUTH_ENABLED THEN {"AUTH"} ELSE {})

\* index.ts:176
authOptionalAlways == TRUE

authOptional == ~SMTP_AUTH_ENABLED

\* index.ts:170-176: the options object passes no allowInsecureAuth
allowInsecureAuth == FALSE

\* The server lists STARTTLS in its EHLO reply on a connection that is not
\* yet secure, unless the command is disabled (options of index.ts:170-176)
OffersStartTls == ~SMTP_SECURE /\ "STARTTLS" \notin disabledCommands

(***************************************************************************)
(* smtpError (index.ts:99-103) and the reply the callback produces.        *)
(***************************************************************************)
smtpError(message, code) == [message |-> message, responseCode |-> code]

\* callback() with no argument: the positive completion reply
ReplyOk == [message |-> "", responseCode |-> 250]

(***************************************************************************)
(* classifySendFailure (index.ts:118-143).  An error value is null, a      *)
(* string, or an object with optional status, statusCode and               *)
(* response.status fields.                                                 *)
(***************************************************************************)
ErrObject(st, sc, rs) ==
    [kind |-> "object", status |-> st, statusCode |-> sc, responseStatus |-> rs]
ErrNull == [kind |-> "null", status |-> JsUndef, statusCode |-> JsUndef,
            responseStatus |-> JsUndef]
ErrString == [kind |-> "string", status |-> JsUndef, statusCode |-> JsUndef,
              responseStatus |-> JsUndef]

\* index.ts:119
ExtractStatusResponseFirst(err) ==
    JsOr(JsOr(err.responseStatus, err.statusCode), err.status)

ExtractStatus(err) == JsOr(JsOr(err.status, err.statusCode), err.responseStatus)

classifySendFailureNoRateLimit(err) ==
    LET status == ExtractStatus(err)
        meta == [status |-> status]
    IN  IF status.t = "number" /\ status.n >= 500
        THEN [code |-> 451, reason |-> "Upstream server error", meta |-> meta]
        ELSE IF status.t = "number" /\ status.n >= 400
        THEN [code |-> 550, reason |-> "Upstream rejected request", meta |-> meta]
        ELSE [code |-> 451, reason |-> "Unknown upstream failure", meta |-> meta]

classifySendFailureBelow400(err) ==
    LET status == ExtractStatus(err)
        meta == [status |-> status]
    IN  IF status = JsNum(429)
        THEN [code |-> 451, reason |-> "Rate limited by upstream", meta |-> meta]
        ELSE IF status.t = "number" /\ status.n >= 500
        THEN [code |-> 451, reason |-> "Upstream server error", meta |-> meta]
        ELSE IF status.t = "number"
        THEN [code |-> 550, reason |-> "Upstream rejected request", meta |-> meta]
        ELSE [code |-> 451, reason |-> "Unknown upstream failure", meta |-> meta]

classifySendFailure(err) ==
    LET status == ExtractStatus(err)
        meta == [status |-> status]
    IN  IF status = JsNum(429)
        THEN [code |-> 451, reason |-> "Rate limited by upstream", meta |-> meta]
        ELSE IF status.t = "number" /\ status.n >= 500
        THEN [code |-> 451, reason |-> "Upstream server error", meta |-> meta]
        ELSE IF status.t = "number" /\ status.n >= 400
        THEN [code |-> 550, reason |-> "Upstream rejected request", meta |-> meta]
        ELSE [code |-> 451, reason |-> "Unknown upstream failure", meta |-> meta]

(***************************************************************************)
(* addressList and firstAddress (index.ts:50-69).  A header's value is a   *)
(* sequence of AddressObjects (empty: the header is absent), each with a   *)
(* value sequence of [name, address] entries.                              *)
(***************************************************************************)
Formatted(v) ==
    LET addr == IF v.address = Undefined THEN "" ELSE v.address
    IN  IF Truthy(v.name) THEN v.name \o " <" \o addr \o ">" ELSE addr

RECURSIVE FormatValuesPrepend(_)
FormatValuesPrepend(vs) ==
    IF vs = <<>> THEN <<>>
    ELSE LET f == Formatted(Head(vs))
         IN  FormatValuesPrepend(Tail(vs)) \o (IF f # "" THEN <<f>> ELSE <<>>)

RECURSIVE FormatValues(_)
FormatValues(vs) ==
    IF vs = <<>> THEN <<>>
    ELSE LET f == Formatted(Head(vs))
         IN  (IF f # "" THEN <<f>> ELSE <<>>) \o FormatValues(Tail(vs))

RECURSIVE FormatObjects(_)
FormatObjects(objs) ==
    IF objs = <<>> THEN <<>>
    ELSE FormatValues(Head(objs).value) \o FormatObjects(Tail(objs))

\* the empty sequence stands for the undefined result
addressList(input) == FormatObjects(input)

firstAddress(input) ==
    LET list == addressList(input)
    IN  IF list = <<>> THEN Undefined ELSE list[1]

\* String.prototype.toLowerCase on the strings the model uses
ToLowerCase(str) ==
    CASE str = "SILENT" -> "silent"
      [] str = "Info" -> "info"
      [] str = "Message-ID" -> "message-id"
      [] str = "DKIM-Signature" -> "dkim-signature"
      [] str = "X-Custom" -> "x-custom"
      [] OTHER -> str

(***************************************************************************)
(* The custom-header map of the payload (index.ts:247-293).  mail.headers  *)
(* is a Map, walked in insertion order; a header's value is a string, an   *)
(* array of strings, an object with a text or value field, null, or a      *)
(* value whose conversion to a string throws.                              *)
(***************************************************************************)
\* index.ts:249-274
DISALLOWED ==
    {"date", "from", "to", "cc", "bcc", "subject", "reply-to", "reply_to",
     "message-id", "messageid", "mime-version", "content-type",
     "content-transfer-encoding", "content-disposition", "content-id",
     "return-path", "sender", "delivered-to", "received",
     "authentication-results", "dkim-signature", "arc-seal",
     "arc-message-signature", "arc-authentication-results"}

HeaderStr(s) == [t |-> "string", s |-> s, items |-> <<>>]
HeaderNull == [t |-> "null", s |-> "", items |-> <<>>]
HeaderArr(items) == [t |-> "array", s |-> "", items |-> items]
HeaderObj(value) == [t |-> "object", s |-> value, items |-> <<>>]
HeaderThrows == [t |-> "throws", s |-> "", items |-> <<>>]

\* Array.prototype.join(', ')
RECURSIVE Join(_)
Join(items) ==
    IF items = <<>> THEN ""
    ELSE IF Len(items) = 1 THEN items[1]
    ELSE items[1] \o ", " \o Join(Tail(items))

\* index.ts:282-286, for a value whose conversion does not throw
Stringify(value) ==
    IF value.t = "array" THEN Join(value.items)
    ELSE IF value.t = "string" THEN value.s
    ELSE IF value.s # Undefined THEN value.s ELSE "[object Object]"

EmptyMap == [k \in {} |-> ""]

\* out[key] = str
Put(out, key, str) ==
    [k \in (DOMAIN out) \cup {key} |-> IF k = key THEN str ELSE out[k]]

\* index.ts:275-291: the loop, left at the first value that throws
RECURSIVE HeaderLoopCaseSensitive(_, _)
HeaderLoopCaseSensitive(entries, out) ==
    IF entries = <<>> THEN out
    ELSE LET key == Head(entries).key
             value == Head(entries).value
         IN  IF key \in DISALLOWED THEN HeaderLoopCaseSensitive(Tail(entries), out)
             ELSE IF value.t = "null" THEN HeaderLoopCaseSensitive(Tail(entries), out)
             ELSE IF value.t = "throws" THEN out
             ELSE IF Stringify(value) # ""
             THEN HeaderLoopCaseSensitive(Tail(entries), Put(out, key, Stringify(value)))
             ELSE HeaderLoopCaseSensitive(Tail(entries), out)

RECURSIVE HeaderLoop(_, _)
HeaderLoop(entries, out) ==
    IF entries = <<>> THEN out
    ELSE LET key == Head(entries).key
             lc == ToLowerCase(key)
             value == Head(entries).value
         IN  IF lc \in DISALLOWED THEN HeaderLoop(Tail(entries), out)
             ELSE IF value.t = "null" THEN HeaderLoop(Tail(entries), out)
             ELSE IF value.t = "throws" THEN out
             ELSE IF Stringify(value) # ""
             THEN HeaderLoop(Tail(entries), Put(out, key, Stringify(value)))
             ELSE HeaderLoop(Tail(entries), out)

\* index.ts:247-293: the headers field of the payload; defined is FALSE for
\* the undefined result
customHeadersAlwaysDefined(mailHeaders) ==
    [defined |-> TRUE, map |-> HeaderLoop(mailHeaders, EmptyMap)]

customHeaders(mailHeaders) ==
    LET out == HeaderLoop(mailHeaders, EmptyMap)
    IN  [defined |-> (DOMAIN out # {}), map |-> out]

(***************************************************************************)
(* The message on the wire.  A message is a sequence of lines; the client  *)
(* sends it in chunks of one line.  simpleParser (index.ts:220) is         *)
(* modelled by what the handler reads of its result: the From and To       *)
(* headers and the header map, or a rejection.                             *)
(***************************************************************************)
LineFrom == "From: A <a@x>"
LineTo == "To: b@y"
LineBad == "<unparseable>"
LineCustom == "X-Custom: v"
LineOdd == "X-Odd: <a value whose conversion throws>"

Lines == {LineFrom, LineTo, LineBad}

HeaderName(line) ==
    IF line = LineFrom THEN "from" ELSE IF line = LineTo THEN "to"
    ELSE IF line = LineCustom THEN "x-custom" ELSE IF line = LineOdd THEN "x-odd" ELSE ""

HeaderValue(line) ==
    IF line = LineFrom THEN [value |-> <<[name |-> "A", address |-> "a@x"]>>]
    ELSE IF line = LineTo THEN [value |-> <<[name |-> "", address |-> "b@y"]>>]
    ELSE [value |-> <<>>]

\* Buffer.concat(chunks), index.ts:219
RECURSIVE ConcatReversed(_)
ConcatReversed(cs) ==
    IF cs = <<>> THEN <<>> ELSE ConcatReversed(Tail(cs)) \o Head(cs)

RECURSIVE Concat(_)
Concat(cs) ==
    IF cs = <<>> THEN <<>> ELSE Head(cs) \o Concat(Tail(cs))

RECURSIVE HeaderObjects(_, _)
HeaderObjects(rawLines, name) ==
    IF rawLines = <<>> THEN <<>>
    ELSE (IF HeaderName(Head(rawLines)) = name
          THEN <<HeaderValue(Head(rawLines))>> ELSE <<>>)
         \o HeaderObjects(Tail(rawLines), name)

\* the value of one header line in mail.headers
LineValue(line) ==
    IF line = LineFrom THEN HeaderObj("A <a@x>")
    ELSE IF line = LineTo THEN HeaderObj("b@y")
    ELSE IF line = LineCustom THEN HeaderStr("v")
    ELSE HeaderThrows

\* the value under one key: the line's value, or the array of the values of
\* all lines of that name
MergedValue(rawLines, key) ==
    LET ls == SelectSeq(rawLines, LAMBDA l : HeaderName(l) = key)
    IN  IF Len(ls) = 1 THEN LineValue(ls[1])
        ELSE IF \E i \in 1..Len(ls) : LineValue(ls[i]).t = "throws" THEN HeaderThrows
        ELSE HeaderArr([i \in 1..Len(ls) |-> LineValue(ls[i]).s])

\* the entries of mail.headers, one per header name, in the order in which
\* the names first occur
RECURSIVE MailHeaders(_, _, _)
MailHeaders(rest, rawLines, seen) ==
    IF rest = <<>> THEN <<>>
    ELSE LET key == HeaderName(Head(rest))
         IN  IF key \in seen THEN MailHeaders(Tail(rest), rawLines, seen)
             ELSE <<[key |-> key, value |-> MergedValue(rawLines, key)]>>
                  \o MailHeaders(Tail(rest), rawLines, seen \cup {key})

simpleParser(rawLines) ==
    IF \E i \in 1..Len(rawLines) : rawLines[i] = LineBad
    THEN [failed |-> TRUE, from |-> <<>>, to |-> <<>>, headers |-> <<>>]
    ELSE LET froms == HeaderObjects(rawLines, "from")
         IN  [failed |-> FALSE,
              from |-> IF froms = <<>> THEN <<>> ELSE <<froms[1]>>,
              to |-> HeaderObjects(rawLines, "to"),
              headers |-> MailHeaders(rawLines, rawLines, {})]

(***************************************************************************)
(* The synchronous part of the handler between the two awaits              *)
(* (index.ts:222-295): sender and recipient resolution and the payload.    *)
(***************************************************************************)
NoHeaders == [defined |-> FALSE, map |-> EmptyMap]

NoPayload == [from |-> Undefined, to |-> <<>>, headers |-> NoHeaders]

\* index.ts:222-224; Undefined stands for the envelope's initial mailFrom (false)
envelopeFromNone(env) == Undefined

envelopeFrom(env) == env.mailFrom

\* index.ts:225
fromHeaderEnvelopeFirst(mail, env) ==
    OrElse(OrElse(firstAddress(mail.from), envelopeFrom(env)), DEFAULT_FROM)

fromHeader(mail, env) ==
    OrElse(OrElse(firstAddress(mail.from), DEFAULT_FROM), envelopeFrom(env))

\* index.ts:226
toList(mail, env) ==
    IF addressList(mail.to) # <<>> THEN addressList(mail.to) ELSE env.rcptTo

\* index.ts:228-295: the error thrown, or the payload
BuildPayloadNoSenderCheck(mail, env) ==
    IF toList(mail, env) = <<>>
    THEN [error |-> "Missing To header and no RCPT TO addresses", payload |-> NoPayload]
    ELSE [error |-> "",
          payload |-> [from |-> fromHeader(mail, env), to |-> toList(mail, env),
                       headers |-> customHeaders(mail.headers)]]

BuildPayloadFailsOnHeader(mail, env) ==
    IF ~Truthy(fromHeader(mail, env))
    THEN [error |-> "Missing From header and DEFAULT_FROM not set", payload |-> NoPayload]
    ELSE IF toList(mail, env) = <<>>
    THEN [error |-> "Missing To header and no RCPT TO addresses", payload |-> NoPayload]
    ELSE IF \E i \in 1..Len(mail.headers) : mail.headers[i].value.t = "throws"
    THEN [error |-> "header mapping failed", payload |-> NoPayload]
    ELSE [error |-> "",
          payload |-> [from |-> fromHeader(mail, env), to |-> toList(mail, env),
                       headers |-> customHeaders(mail.headers)]]

BuildPayload(mail, env) ==
    IF ~Truthy(fromHeader(mail, env))
    THEN [error |-> "Missing From header and DEFAULT_FROM not set", payload |-> NoPayload]
    ELSE IF toList(mail, env) = <<>>
    THEN [error |-> "Missing To header and no RCPT TO addresses", payload |-> NoPayload]
    ELSE [error |-> "",
          payload |-> [from |-> fromHeader(mail, env), to |-> toList(mail, env),
                       headers |-> customHeaders(mail.headers)]]

(***************************************************************************)
(* onAuth (index.ts:201-213).                                              *)
(***************************************************************************)
Usernames == {"user", "mallory"}
Passwords == {"pass", "guess"}

onAuthUserOnly(username, password) ==
    IF ~SMTP_AUTH_ENABLED
    THEN [err |-> "Authentication disabled", user |-> Undefined, compared |-> FALSE]
    ELSE IF ~Truthy(SMTP_AUTH_USER) \/ ~Truthy(SMTP_AUTH_PASS)
    THEN [err |-> "Server auth not configured", user |-> Undefined, compared |-> FALSE]
    ELSE IF username = SMTP_AUTH_USER
    THEN [err |-> "", user |-> SMTP_AUTH_USER, compared |-> TRUE]
    ELSE [err |-> "Invalid username or password", user |-> Undefined, compared |-> TRUE]

onAuth(username, password) ==
    IF ~SMTP_AUTH_ENABLED
    THEN [err |-> "Authentication disabled", user |-> Undefined, compared |-> FALSE]
    ELSE IF ~Truthy(SMTP_AUTH_USER) \/ ~Truthy(SMTP_AUTH_PASS)
    THEN [err |-> "Server auth not configured", user |-> Undefined, compared |-> FALSE]
    ELSE IF username = SMTP_AUTH_USER /\ password = SMTP_AUTH_PASS
    THEN [err |-> "", user |-> SMTP_AUTH_USER, compared |-> TRUE]
    ELSE [err |-> "Invalid username or password", user |-> Undefined, compared |-> TRUE]

\* The server refuses AUTH on a plaintext connection only while STARTTLS is
\* an enabled command and insecure auth is not allowed (options of
\* index.ts:170-176 with disabledCommands of index.ts:81-84).
AuthRefusedInsecure(s) ==
    /\ ~secure[s]
    /\ "STARTTLS" \notin disabledCommands
    /\ ~allowInsecureAuth

NoAuth == [attempted |-> FALSE, secure |-> FALSE, username |-> Undefined,
           password |-> Undefined, compared |-> FALSE, err |-> ""]

(***************************************************************************)
(* Results of inbound.emails.send (index.ts:297): { data }, { error }, or  *)
(* a rejected promise.                                                     *)
(***************************************************************************)
NoOutcome == [kind |-> "none", id |-> Undefined, messageId |-> Undefined,
              error |-> ErrNull]

SendSuccess(id, messageId) ==
    [kind |-> "success", id |-> id, messageId |-> messageId, error |-> ErrNull]
SendError(err) ==
    [kind |-> "sendError", id |-> Undefined, messageId |-> Undefined, error |-> err]
SendThrew(err) ==
    [kind |-> "sendThrew", id |-> Undefined, messageId |-> Undefined, error |-> err]

Err403 == ErrObject(JsNum(403), JsUndef, JsUndef)
Err429 == ErrObject(JsUndef, JsNum(429), JsUndef)
Err503 == ErrObject(JsUndef, JsUndef, JsNum(503))
ErrNoStatus == ErrObject(JsUndef, JsUndef, JsUndef)

SendResults ==
    {SendSuccess("m_1", "msg_1"), SendSuccess(Undefined, Undefined)}
    \cup {SendError(e) : e \in {Err403, Err429, Err503, ErrNoStatus, ErrString}}
    \cup {SendThrew(Err403)}

(***************************************************************************)
(* Console lines (index.ts:179, 192, 301, 313, 325).                       *)
(***************************************************************************)
NoFailure == [code |-> 0, reason |-> "", meta |-> [status |-> JsUndef]]

LogLine(kind, id, messageId, failure) ==
    [kind |-> kind, id |-> id, messageId |-> messageId, failure |-> failure]

\* index.ts:313-320
ForwardedLineIdOnly(data) == LogLine("forwarded", data.id, Undefined, NoFailure)

ForwardedLine(data) == LogLine("forwarded", data.id, data.messageId, NoFailure)

\* index.ts:300-308
SendErrorLinesAlways(failure) ==
    <<LogLine("sendError", Undefined, Undefined, failure)>>

SendErrorLines(failure) ==
    IF LOG_LEVEL # "silent"
    THEN <<LogLine("sendError", Undefined, Undefined, failure)>> ELSE <<>>

\* index.ts:324-326
ProcessingErrorLines ==
    IF LOG_LEVEL # "silent"
    THEN <<LogLine("processingError", Undefined, Undefined, NoFailure)>> ELSE <<>>

\* index.ts:87-96: the strings of the configuration summary logged at startup
ConfigSummary ==
    [mode |-> IF SMTP_SECURE THEN "SMTPS (implicit TLS)" ELSE "SMTP plaintext",
     authEnabled |-> IF SMTP_AUTH_ENABLED THEN "true" ELSE "false",
     tlsCert |-> IF SMTP_SECURE THEN OrElse(processEnv.TLS_CERT_PATH, "<missing>") ELSE "<n/a>",
     tlsKey |-> IF SMTP_SECURE THEN OrElse(processEnv.TLS_KEY_PATH, "<missing>") ELSE "<n/a>",
     defaultFrom |-> IF Truthy(DEFAULT_FROM) THEN "<set>" ELSE "<unset>"]

(***************************************************************************)
(* The callback calls of each path of the handler.                         *)
(***************************************************************************)
\* index.ts:322
RepliesOnSuccess == <<ReplyOk>>

\* index.ts:309-310
RepliesOnSendErrorNoReturn(failure) ==
    << smtpError("Failed to send email via Inbound: " \o failure.reason, failure.code),
       ReplyOk >>

RepliesOnSendErrorFixedCode(failure) ==
    << smtpError("Failed to send email via Inbound: " \o failure.reason, 451) >>

RepliesOnSendErrorReturnInLog(failure) ==
    IF LOG_LEVEL # "silent"
    THEN << smtpError("Failed to send email via Inbound: " \o failure.reason, failure.code) >>
    ELSE << smtpError("Failed to send email via Inbound: " \o failure.reason, failure.code),
            ReplyOk >>

RepliesOnSendError(failure) ==
    << smtpError("Failed to send email via Inbound: " \o failure.reason, failure.code) >>

\* index.ts:323-328; err is the exception caught
RepliesOnExceptionClassified(err) ==
    << smtpError("Error processing email", classifySendFailure(err).code) >>

RepliesOnException(err) == << smtpError("Error processing email", 451) >>

(***************************************************************************)
(* The process: its environment, the TLS files, and its startup            *)
(* (index.ts:10-29, 72-78, 145-176, 333-335).                              *)
(***************************************************************************)
CertPath == "/certs/cert.pem"
KeyPath == "/certs/key.pem"
CaPath == "/certs/ca.pem"

Envs ==
    [ INBOUND_API_KEY : {Undefined, "", "key"},
      SMTP_SECURE : {Undefined, "true"},
      SMTP_AUTH_ENABLED : {Undefined, "true"},
      SMTP_AUTH_USER : {Undefined, "user"},
      SMTP_AUTH_PASS : {Undefined, "pass"},
      TLS_CERT_PATH : {Undefined, CertPath},
      TLS_KEY_PATH : {Undefined, KeyPath},
      TLS_CA_PATH : {Undefined, CaPath},
      DEFAULT_FROM : {Undefined},
      LOG_LEVEL : {Undefined} ]

\* files.material is what the certificate files hold: the certificate
\* issued first ("cert-1") or its renewal ("cert-2")
Files == [readable : SUBSET {CertPath, KeyPath, CaPath}, material : {"cert-1"}]

\* index.ts:10-24
ConfigOf(e) ==
    [SMTP_SECURE |-> (e.SMTP_SECURE = "true"),
     SMTP_AUTH_ENABLED |-> (e.SMTP_AUTH_ENABLED = "true"),
     SMTP_AUTH_USER |-> e.SMTP_AUTH_USER,
     SMTP_AUTH_PASS |-> e.SMTP_AUTH_PASS,
     DEFAULT_FROM |-> e.DEFAULT_FROM,
     LOG_LEVEL |-> ToLowerCase(OrElse(e.LOG_LEVEL, "info"))]

\* fs.readFileSync(path) succeeds
Readable(path) == path \in files.readable

\* index.ts:149-167: exit is TRUE when the block ends in process.exit(1)
LoadTlsMaterialsPlaintextToo ==
    IF ~Truthy(processEnv.TLS_CERT_PATH) \/ ~Truthy(processEnv.TLS_KEY_PATH)
    THEN [exit |-> SMTP_SECURE, tls |-> "none", ca |-> FALSE, warned |-> FALSE]
    ELSE IF ~Readable(processEnv.TLS_CERT_PATH) \/ ~Readable(processEnv.TLS_KEY_PATH)
    THEN [exit |-> TRUE, tls |-> "none", ca |-> FALSE, warned |-> FALSE]
    ELSE [exit |-> FALSE, tls |-> files.material,
          ca |-> Truthy(processEnv.TLS_CA_PATH) /\ Readable(processEnv.TLS_CA_PATH),
          warned |-> Truthy(processEnv.TLS_CA_PATH) /\ ~Readable(processEnv.TLS_CA_PATH)]

LoadTlsMaterialsIgnoreKey ==
    IF ~SMTP_SECURE
    THEN [exit |-> FALSE, tls |-> "none", ca |-> FALSE, warned |-> FALSE]
    ELSE IF ~Truthy(processEnv.TLS_CERT_PATH) \/ ~Truthy(processEnv.TLS_KEY_PATH)
    THEN [exit |-> TRUE, tls |-> "none", ca |-> FALSE, warned |-> FALSE]
    ELSE IF ~Readable(processEnv.TLS_CERT_PATH)
    THEN [exit |-> TRUE, tls |-> "none", ca |-> FALSE, warned |-> FALSE]
    ELSE [exit |-> FALSE, tls |-> files.material,
          ca |-> Truthy(processEnv.TLS_CA_PATH) /\ Readable(processEnv.TLS_CA_PATH),
          warned |-> Truthy(processEnv.TLS_CA_PATH) /\ ~Readable(processEnv.TLS_CA_PATH)]

LoadTlsMaterials ==
    IF ~SMTP_SECURE
    THEN [exit |-> FALSE, tls |-> "none", ca |-> FALSE, warned |-> FALSE]
    ELSE IF ~Truthy(processEnv.TLS_CERT_PATH) \/ ~Truthy(processEnv.TLS_KEY_PATH)
    THEN [exit |-> TRUE, tls |-> "none", ca |-> FALSE, warned |-> FALSE]
    ELSE IF ~Readable(processEnv.TLS_CERT_PATH) \/ ~Readable(processEnv.TLS_KEY_PATH)
    THEN [exit |-> TRUE, tls |-> "none", ca |-> FALSE, warned |-> FALSE]
    ELSE [exit |-> FALSE, tls |-> files.material,
          ca |-> Truthy(processEnv.TLS_CA_PATH) /\ Readable(processEnv.TLS_CA_PATH),
          warned |-> Truthy(processEnv.TLS_CA_PATH) /\ ~Readable(processEnv.TLS_CA_PATH)]

\* the process before its first statement
ProcStarting ==
    [at |-> "checkApiKey", exit |-> <<>>, listening |-> FALSE, tls |-> "none",
     ca |-> FALSE, warned |-> FALSE, signal |-> "none"]

\* the process once server.listen has bound the socket
ProcListening(material) ==
    [at |-> "listening", exit |-> <<>>, listening |-> TRUE, tls |-> material,
     ca |-> FALSE, warned |-> FALSE, signal |-> "none"]

\* process.exit(code)
Exit(code) == proc' = [proc EXCEPT !.at = "exited", !.exit = <<code>>]

\* an environment the configuration c was read from
RunningEnv(c) ==
    [INBOUND_API_KEY |-> "key",
     SMTP_SECURE |-> IF c.SMTP_SECURE THEN "true" ELSE Undefined,
     SMTP_AUTH_ENABLED |-> IF c.SMTP_AUTH_ENABLED THEN "true" ELSE Undefined,
     SMTP_AUTH_USER |-> c.SMTP_AUTH_USER,
     SMTP_AUTH_PASS |-> c.SMTP_AUTH_PASS,
     TLS_CERT_PATH |-> IF c.SMTP_SECURE THEN CertPath ELSE Undefined,
     TLS_KEY_PATH |-> IF c.SMTP_SECURE THEN KeyPath ELSE Undefined,
     TLS_CA_PATH |-> Undefined,
     DEFAULT_FROM |-> c.DEFAULT_FROM,
     LOG_LEVEL |-> c.LOG_LEVEL]

\* a started process serving with configuration c
ProcessRunning(c) ==
    /\ processEnv = RunningEnv(c)
    /\ files = [readable |-> {CertPath, KeyPath, CaPath}, material |-> "cert-1"]
    /\ proc = ProcListening(IF c.SMTP_SECURE THEN "cert-1" ELSE "none")

(***************************************************************************)
(* Initial state: the process has started with a valid configuration and   *)
(* no client has connected.                                                *)
(***************************************************************************)
NoEnvelope == [mailFrom |-> Undefined, rcptTo |-> <<>>]

MailFromAddrs == {"", "env@x"}
RcptAddrs == {"r1@x", "r2@x"}

NoFn == [fn |-> "none"]

SessionsInit ==
    /\ phase = [s \in Sessions |-> "None"]
    /\ secure = [s \in Sessions |-> FALSE]
    /\ user = [s \in Sessions |-> Undefined]
    /\ lastAuth = [s \in Sessions |-> NoAuth]
    /\ envelope = [s \in Sessions |-> NoEnvelope]
    /\ pc = [s \in Sessions |-> "idle"]
    /\ chunks = [s \in Sessions |-> <<>>]
    /\ raw = [s \in Sessions |-> <<>>]
    /\ payload = [s \in Sessions |-> NoPayload]
    /\ built = [s \in Sessions |-> 0]
    /\ sends = [s \in Sessions |-> 0]
    /\ outcome = [s \in Sessions |-> NoOutcome]
    /\ replies = [s \in Sessions |-> <<>>]
    /\ log = [s \in Sessions |-> <<>>]

Init ==
    /\ cfg \in Configs
    /\ ProcessRunning(cfg)
    /\ SessionsInit
    /\ fnIn = NoFn
    /\ fnOut = NoFn

(***************************************************************************)
(* Session events.                                                         *)
(***************************************************************************)
\* onConnect, index.ts:177-189
Connect(s) ==
    /\ proc.listening
    /\ phase[s] = "None"
    /\ phase' = [phase EXCEPT ![s] = "AwaitingEnvelope"]
    /\ secure' = [secure EXCEPT ![s] = SMTP_SECURE]
    /\ log' = [log EXCEPT ![s] = Append(@, LogLine("connected", Undefined, Undefined, NoFailure))]
    /\ UNCHANGED <<cfg, user, lastAuth, envelope, pc, chunks, raw, payload,
                   built, sends, outcome, replies, fnIn, fnOut, procVars>>

\* onClose, index.ts:190-200: the connection is gone; the handler only logs
Close(s) ==
    /\ phase[s] \notin {"None", "Closed"}
    /\ phase' = [phase EXCEPT ![s] = "Closed"]
    /\ log' = [log EXCEPT ![s] = Append(@, LogLine("disconnected", Undefined, Undefined, NoFailure))]
    /\ UNCHANGED <<cfg, secure, user, lastAuth, envelope, pc, chunks, raw,
                   payload, built, sends, outcome, replies, fnIn, fnOut, procVars>>

\* AUTH command: the server's gate, then onAuth (index.ts:201-213)
Auth(s, username, password) ==
    /\ phase[s] = "AwaitingEnvelope"
    /\ user[s] = Undefined
    /\ "AUTH" \notin disabledCommands
    /\ IF AuthRefusedInsecure(s)
       THEN /\ lastAuth' = [lastAuth EXCEPT ![s] =
                   [attempted |-> TRUE, secure |-> secure[s], username |-> username,
                    password |-> password, compared |-> FALSE,
                    err |-> "Must issue a STARTTLS command first"]]
            /\ user' = user
       ELSE LET r == onAuth(username, password)
            IN  /\ lastAuth' = [lastAuth EXCEPT ![s] =
                       [attempted |-> TRUE, secure |-> secure[s], username |-> username,
                        password |-> password, compared |-> r.compared, err |-> r.err]]
                /\ user' = [user EXCEPT ![s] = r.user]
    /\ UNCHANGED <<cfg, phase, secure, envelope, pc, chunks, raw, payload,
                   built, sends, outcome, replies, log, fnIn, fnOut, procVars>>

\* MAIL FROM: accepted once authenticated, or when auth is optional
\* (index.ts:176).  A new transaction begins: what the model kept of the
\* previous data phase (the finished handler's locals, its console lines) is
\* dropped.
MailFrom(s, addr) ==
    /\ phase[s] = "AwaitingEnvelope"
    /\ authOptional \/ user[s] # Undefined
    /\ phase' = [phase EXCEPT ![s] = "InTransaction"]
    /\ envelope' = [envelope EXCEPT ![s] = [mailFrom |-> addr, rcptTo |-> <<>>]]
    /\ pc' = [pc EXCEPT ![s] = "idle"]
    /\ chunks' = [chunks EXCEPT ![s] = <<>>]
    /\ raw' = [raw EXCEPT ![s] = <<>>]
    /\ payload' = [payload EXCEPT ![s] = NoPayload]
    /\ built' = [built EXCEPT ![s] = 0]
    /\ sends' = [sends EXCEPT ![s] = 0]
    /\ outcome' = [outcome EXCEPT ![s] = NoOutcome]
    /\ replies' = [replies EXCEPT ![s] = <<>>]
    /\ log' = [log EXCEPT ![s] = <<>>]
    /\ UNCHANGED <<cfg, secure, user, lastAuth, fnIn, fnOut, procVars>>

\* RCPT TO
RcptTo(s, addr) ==
    /\ phase[s] \in {"InTransaction", "AwaitingData"}
    /\ Len(envelope[s].rcptTo) < MaxRcpt
    /\ phase' = [phase EXCEPT ![s] = "AwaitingData"]
    /\ envelope' = [envelope EXCEPT ![s].rcptTo = Append(@, addr)]
    /\ UNCHANGED <<cfg, secure, user, lastAuth, pc, chunks, raw, payload, built,
                   sends, outcome, replies, log, fnIn, fnOut, procVars>>

\* DATA: onData is called and registers its listeners (index.ts:214-217)
Data(s) ==
    /\ phase[s] = "AwaitingData"
    /\ pc[s] = "idle"
    /\ phase' = [phase EXCEPT ![s] = "DataPhase"]
    /\ pc' = [pc EXCEPT ![s] = "streaming"]
    /\ chunks' = [chunks EXCEPT ![s] = <<>>]
    /\ UNCHANGED <<cfg, secure, user, lastAuth, envelope, raw, payload, built, sends,
                   outcome, replies, log, fnIn, fnOut, procVars>>

\* stream 'data' event, index.ts:216
StreamDataShared(s, line) ==
    /\ phase[s] = "DataPhase"
    /\ pc[s] = "streaming"
    /\ Len(chunks[s]) < MaxChunks
    /\ chunks' = [t \in Sessions |->
                     IF Len(chunks[t]) < MaxChunks THEN Append(chunks[t], <<line>>)
                     ELSE chunks[t]]
    /\ UNCHANGED <<cfg, phase, secure, user, lastAuth, envelope, pc, raw,
                   payload, built, sends, outcome, replies, log, fnIn, fnOut, procVars>>

StreamData(s, line) ==
    /\ phase[s] = "DataPhase"
    /\ pc[s] = "streaming"
    /\ Len(chunks[s]) < MaxChunks
    /\ chunks' = [chunks EXCEPT ![s] = Append(@, <<line>>)]
    /\ UNCHANGED <<cfg, phase, secure, user, lastAuth, envelope, pc, raw,
                   payload, built, sends, outcome, replies, log, fnIn, fnOut, procVars>>

\* The 'end' listener of index.ts:217 runs when the body has been received
\* completely on an open connection.
EndOrCloseFires(s) == pc[s] = "streaming" /\ phase[s] \in {"DataPhase", "Closed"}

EndFiresAgain(s) == phase[s] = "DataPhase" /\ pc[s] \in {"streaming", "sending"}

EndEventFires(s) == phase[s] = "DataPhase" /\ pc[s] = "streaming"

\* stream 'end' event, index.ts:217-220: up to the first await
StreamEnd(s) ==
    /\ EndEventFires(s)
    /\ raw' = [raw EXCEPT ![s] = Concat(chunks[s])]
    /\ pc' = [pc EXCEPT ![s] = "parsing"]
    /\ UNCHANGED <<cfg, phase, secure, user, lastAuth, envelope, chunks,
                   payload, built, sends, outcome, replies, log, fnIn, fnOut, procVars>>

\* The handler's last step: callback calls, console lines, and the server's
\* return to the envelope state once a reply went out on an open connection.
FinishClosing(s, newReplies, newLines, oc) ==
    /\ replies' = [replies EXCEPT ![s] = @ \o newReplies]
    /\ log' = [log EXCEPT ![s] = @ \o newLines]
    /\ outcome' = [outcome EXCEPT ![s] = oc]
    /\ pc' = [pc EXCEPT ![s] = "replied"]
    /\ IF phase[s] = "DataPhase" /\ newReplies # <<>>
       THEN /\ phase' = [phase EXCEPT ![s] =
                   IF newReplies[1].responseCode = 250 THEN "AwaitingEnvelope" ELSE "Closed"]
            /\ envelope' = [envelope EXCEPT ![s] = NoEnvelope]
       ELSE UNCHANGED <<phase, envelope>>

FinishSharedReplies(s, newReplies, newLines, oc) ==
    /\ replies' = [t \in Sessions |-> replies[t] \o newReplies]
    /\ log' = [log EXCEPT ![s] = @ \o newLines]
    /\ outcome' = [outcome EXCEPT ![s] = oc]
    /\ pc' = [pc EXCEPT ![s] = "replied"]
    /\ IF phase[s] = "DataPhase" /\ newReplies # <<>>
       THEN /\ phase' = [phase EXCEPT ![s] = "AwaitingEnvelope"]
            /\ envelope' = [envelope EXCEPT ![s] = NoEnvelope]
       ELSE UNCHANGED <<phase, envelope>>

Finish(s, newReplies, newLines, oc) ==
    /\ replies' = [replies EXCEPT ![s] = @ \o newReplies]
    /\ log' = [log EXCEPT ![s] = @ \o newLines]
    /\ outcome' = [outcome EXCEPT ![s] = oc]
    /\ pc' = [pc EXCEPT ![s] = "replied"]
    /\ IF phase[s] = "DataPhase" /\ newReplies # <<>>
       THEN /\ phase' = [phase EXCEPT ![s] = "AwaitingEnvelope"]
            /\ envelope' = [envelope EXCEPT ![s] = NoEnvelope]
       ELSE UNCHANGED <<phase, envelope>>

ProcessingFailed(kind, err) ==
    [kind |-> kind, id |-> Undefined, messageId |-> Undefined, error |-> err]

\* simpleParser settles; index.ts:220-297 up to the second await
ParseDone(s) ==
    /\ pc[s] = "parsing"
    /\ LET mail == simpleParser(raw[s])
           r == BuildPayload(mail, envelope[s])
       IN  IF mail.failed
           THEN /\ Finish(s, RepliesOnException(ErrNoStatus), ProcessingErrorLines,
                          ProcessingFailed("parseError", ErrNoStatus))
                /\ UNCHANGED <<payload, built, sends>>
           ELSE IF r.error # ""
           THEN /\ Finish(s, RepliesOnException(ErrNoStatus), ProcessingErrorLines,
                          ProcessingFailed("normalizeError", ErrNoStatus))
                /\ UNCHANGED <<payload, built, sends>>
           ELSE /\ payload' = [payload EXCEPT ![s] = r.payload]
                /\ built' = [built EXCEPT ![s] = @ + 1]
                /\ sends' = [sends EXCEPT ![s] = @ + 1]
                /\ pc' = [pc EXCEPT ![s] = "sending"]
                /\ UNCHANGED <<phase, envelope, outcome, replies, log>>
    /\ UNCHANGED <<cfg, secure, user, lastAuth, chunks, raw, fnIn, fnOut, procVars>>

\* inbound.emails.send settles; index.ts:297-328
SendDone(s, res) ==
    /\ pc[s] = "sending"
    /\ IF res.kind = "success"
       THEN Finish(s, RepliesOnSuccess, <<ForwardedLine(res)>>, res)
       ELSE IF res.kind = "sendError"
       THEN LET failure == classifySendFailure(res.error)
            IN  Finish(s, RepliesOnSendError(failure), SendErrorLines(failure), res)
       ELSE Finish(s, RepliesOnException(res.error), ProcessingErrorLines, res)
    /\ UNCHANGED <<cfg, secure, user, lastAuth, chunks, raw, payload, built,
                   sends, fnIn, fnOut, procVars>>

SessionStep(s) ==
    \/ Connect(s)
    \/ Close(s)
    \/ \E u \in Usernames, p \in Passwords : Auth(s, u, p)
    \/ \E a \in MailFromAddrs : MailFrom(s, a)
    \/ \E a \in RcptAddrs : RcptTo(s, a)
    \/ Data(s)
    \/ \E l \in Lines : StreamData(s, l)
    \/ StreamEnd(s)
    \/ ParseDone(s)
    \/ \E res \in SendResults : SendDone(s, res)

\* Spec follows one session through any number of transactions; the other
\* session stays unconnected.
Next == SessionStep("s1")

Spec == Init /\ [][Next]_vars

(***************************************************************************)
(* classifySendFailure applied to one error value.                         *)
(***************************************************************************)
StatusValues ==
    {JsUndef, JsStr("403")}
    \cup {JsNum(n) : n \in {0, 200, 399, 400, 403, 429, 499, 500, 503}}

ErrorValues ==
    {ErrNull, ErrString}
    \cup {ErrObject(st, sc, rs) : st \in StatusValues, sc \in StatusValues,
                                  rs \in StatusValues}

PlainConfig ==
    [SMTP_SECURE |-> FALSE, SMTP_AUTH_ENABLED |-> FALSE, SMTP_AUTH_USER |-> Undefined,
     SMTP_AUTH_PASS |-> Undefined, DEFAULT_FROM |-> Undefined, LOG_LEVEL |-> "info"]

InitClassify ==
    /\ cfg = PlainConfig
    /\ ProcessRunning(cfg)
    /\ SessionsInit
    /\ fnIn \in {[fn |-> "classifySendFailure", arg |-> e] : e \in ErrorValues}
    /\ fnOut = NoFn

ApplyClassify ==
    /\ fnIn.fn = "classifySendFailure"
    /\ fnOut.fn = "none"
    /\ fnOut' = [fn |-> "classifySendFailure", result |-> classifySendFailure(fnIn.arg)]
    /\ UNCHANGED <<cfg, sessionVars, fnIn, procVars>>

NextClassify == ApplyClassify

SpecClassify == InitClassify /\ [][NextClassify]_vars

(***************************************************************************)
(* The process from its first statement: startup, then connections, the    *)
(* renewal of the certificate files, and a SIGHUP.                         *)
(***************************************************************************)
InitProcess ==
    /\ processEnv \in Envs
    /\ files \in Files
    /\ cfg = ConfigOf(processEnv)
    /\ proc = ProcStarting
    /\ SessionsInit
    /\ fnIn = NoFn
    /\ fnOut = NoFn

\* index.ts:26-29
CheckApiKey ==
    /\ proc.at = "checkApiKey"
    /\ IF ~Truthy(processEnv.INBOUND_API_KEY)
       THEN Exit(1)
       ELSE proc' = [proc EXCEPT !.at = "checkAuth"]
    /\ UNCHANGED <<cfg, sessionVars, fnIn, fnOut, processEnv, files>>

\* index.ts:72-78
CheckAuthConfig ==
    /\ proc.at = "checkAuth"
    /\ IF ~AuthConfigValid(cfg)
       THEN Exit(1)
       ELSE proc' = [proc EXCEPT !.at = "loadTls"]
    /\ UNCHANGED <<cfg, sessionVars, fnIn, fnOut, processEnv, files>>

\* index.ts:145-168
LoadTls ==
    /\ proc.at = "loadTls"
    /\ LET r == LoadTlsMaterials
       IN  IF r.exit
           THEN Exit(1)
           ELSE proc' = [proc EXCEPT !.at = "listen", !.tls = r.tls, !.ca = r.ca,
                                     !.warned = r.warned]
    /\ UNCHANGED <<cfg, sessionVars, fnIn, fnOut, processEnv, files>>

\* index.ts:170-176, 333-335
Listen ==
    /\ proc.at = "listen"
    /\ proc' = [proc EXCEPT !.at = "listening", !.listening = TRUE]
    /\ UNCHANGED <<cfg, sessionVars, fnIn, fnOut, processEnv, files>>

\* the certificate files are replaced on disk (what reload-smtpbound.sh:4-6
\* says happens before it runs)
RenewCert ==
    /\ proc.at = "listening"
    /\ files.material = "cert-1"
    /\ files' = [files EXCEPT !.material = "cert-2"]
    /\ UNCHANGED <<cfg, sessionVars, fnIn, fnOut, processEnv, proc>>

\* kill -HUP (reload-smtpbound.sh:15).  index.ts installs no SIGHUP listener,
\* so the signal has its default disposition: it terminates the process, or
\* the kernel drops it when the process is PID 1 of its container.
Sighup ==
    /\ proc.at = "listening"
    /\ proc.signal = "none"
    /\ \/ /\ proc' = [proc EXCEPT !.signal = "SIGHUP"]
          /\ UNCHANGED sessionVars
       \/ /\ proc' = [proc EXCEPT !.signal = "SIGHUP", !.at = "killed",
                                  !.listening = FALSE]
          /\ phase' = [s \in Sessions |->
                          IF phase[s] = "None" THEN "None" ELSE "Closed"]
          /\ UNCHANGED <<secure, user, lastAuth, envelope, pc, chunks, raw, payload,
                         built, sends, outcome, replies, log>>
    /\ UNCHANGED <<cfg, fnIn, fnOut, processEnv, files>>

NextProcess ==
    \/ CheckApiKey
    \/ CheckAuthConfig
    \/ LoadTls
    \/ Listen
    \/ RenewCert
    \/ Sighup
    \/ Connect("s1")
    \/ Close("s1")

SpecProcess == InitProcess /\ [][NextProcess]_vars

(***************************************************************************)
(* Sender and recipient resolution (index.ts:222-233) applied to one       *)
(* parsed message and envelope.  An address entry of a parsed header has a *)
(* name and an address; a group, or a mailbox written without an address,  *)
(* has a name only.                                                        *)
(***************************************************************************)
AddressEntries ==
    { [name |-> "", address |-> "a@x"],
      [name |-> "A", address |-> "a@x"],
      [name |-> "", address |-> "b@y"],
      [name |-> "N", address |-> ""],
      [name |-> "G", address |-> Undefined],
      [name |-> "", address |-> Undefined] }

SeqsUpTo(S, n) == UNION {[1..k -> S] : k \in 0..n}

AddressObjects(n) == {[value |-> vs] : vs \in SeqsUpTo(AddressEntries, n)}

\* mail.from: absent, or one AddressObject
FromHeaders == {<<>>} \cup {<<o>> : o \in AddressObjects(MaxEntries)}

\* mail.to: absent, one AddressObject, or an array of them
ToHeaders ==
    FromHeaders \cup {<<o1, o2>> : o1 \in AddressObjects(1), o2 \in AddressObjects(1)}

SimpleFromHeaders == {<<>>, <<[value |-> <<[name |-> "A", address |-> "a@x"]>>]>>}
SimpleToHeaders == {<<>>, <<[value |-> <<[name |-> "", address |-> "b@y"]>>]>>}

\* session.envelope when onData runs: MAIL FROM (possibly the null sender)
\* and at least one RCPT TO have been accepted
Envelopes ==
    [mailFrom : {"", "env@x"}, rcptTo : {<<"r1@x">>, <<"r1@x", "r2@x">>}]

NormalizeConfigs ==
    {[PlainConfig EXCEPT !.DEFAULT_FROM = d] : d \in {Undefined, "", "default@x"}}

NormalizeInputs ==
    {[fn |-> "normalize", mail |-> [failed |-> FALSE, from |-> f, to |-> t, headers |-> <<>>], envelope |-> e] :
        f \in FromHeaders, t \in SimpleToHeaders, e \in Envelopes}
    \cup
    {[fn |-> "normalize", mail |-> [failed |-> FALSE, from |-> f, to |-> t, headers |-> <<>>], envelope |-> e] :
        f \in SimpleFromHeaders, t \in ToHeaders, e \in Envelopes}

InitNormalize ==
    /\ cfg \in NormalizeConfigs
    /\ ProcessRunning(cfg)
    /\ SessionsInit
    /\ fnIn \in NormalizeInputs
    /\ fnOut = NoFn

ApplyNormalize ==
    /\ fnIn.fn = "normalize"
    /\ fnOut.fn = "none"
    /\ fnOut' = [fn |-> "normalize", result |-> BuildPayload(fnIn.mail, fnIn.envelope)]
    /\ UNCHANGED <<cfg, sessionVars, fnIn, procVars>>

NextNormalize == ApplyNormalize

SpecNormalize == InitNormalize /\ [][NextNormalize]_vars

(***************************************************************************)
(* addressList (index.ts:50-64) applied to one parsed header.              *)
(***************************************************************************)
InitAddressList ==
    /\ cfg = PlainConfig
    /\ ProcessRunning(cfg)
    /\ SessionsInit
    /\ fnIn \in {[fn |-> "addressList", input |-> h] : h \in ToHeaders}
    /\ fnOut = NoFn

ApplyAddressList ==
    /\ fnIn.fn = "addressList"
    /\ fnOut.fn = "none"
    /\ fnOut' = [fn |-> "addressList", result |-> addressList(fnIn.input)]
    /\ UNCHANGED <<cfg, sessionVars, fnIn, procVars>>

NextAddressList == ApplyAddressList

SpecAddressList == InitAddressList /\ [][NextAddressList]_vars

(***************************************************************************)
(* customHeaders (index.ts:247-293) applied to one header map.              *)
(***************************************************************************)
HeaderKeys ==
    {"message-id", "Message-ID", "DKIM-Signature", "subject", "content-type",
     "content-language", "x-custom", "X-Custom"}

HeaderValues ==
    {HeaderStr("v"), HeaderStr(""), HeaderNull, HeaderArr(<<"v1", "v2">>),
     HeaderObj("val"), HeaderThrows}

\* the entries of a Map: no key twice
HeaderMaps ==
    {h \in SeqsUpTo([key : HeaderKeys, value : HeaderValues], MaxHeaders) :
        \A i, j \in 1..Len(h) : i # j => h[i].key # h[j].key}

InitHeaders ==
    /\ cfg = PlainConfig
    /\ ProcessRunning(cfg)
    /\ SessionsInit
    /\ fnIn \in {[fn |-> "headers", headers |-> h] : h \in HeaderMaps}
    /\ fnOut = NoFn

ApplyHeaders ==
    /\ fnIn.fn = "headers"
    /\ fnOut.fn = "none"
    /\ fnOut' = [fn |-> "headers", result |-> customHeaders(fnIn.headers)]
    /\ UNCHANGED <<cfg, sessionVars, fnIn, procVars>>

NextHeaders == ApplyHeaders

SpecHeaders == InitHeaders /\ [][NextHeaders]_vars

(***************************************************************************)
(* mapAttachments (index.ts:34-47).  An attachment's content is a Buffer,  *)
(* a sequence of bytes; a base64 string is the sequence of its characters, *)
(* each the index 0..63 of a character of the base64 alphabet, or 64 for   *)
(* the padding character.                                                  *)
(***************************************************************************)
\* Buffer.prototype.toString('base64'), index.ts:43
RECURSIVE Base64EncodeDropTail(_)
Base64EncodeDropTail(bytes) ==
    IF Len(bytes) < 3 THEN <<>>
    ELSE << bytes[1] \div 4,
            (bytes[1] % 4) * 16 + bytes[2] \div 16,
            (bytes[2] % 16) * 4 + bytes[3] \div 64,
            bytes[3] % 64 >>
         \o Base64EncodeDropTail(SubSeq(bytes, 4, Len(bytes)))

RECURSIVE Base64Encode(_)
Base64Encode(bytes) ==
    IF bytes = <<>> THEN <<>>
    ELSE IF Len(bytes) = 1
    THEN << bytes[1] \div 4, (bytes[1] % 4) * 16, 64, 64 >>
    ELSE IF Len(bytes) = 2
    THEN << bytes[1] \div 4,
            (bytes[1] % 4) * 16 + bytes[2] \div 16,
            (bytes[2] % 16) * 4,
            64 >>
    ELSE << bytes[1] \div 4,
            (bytes[1] % 4) * 16 + bytes[2] \div 16,
            (bytes[2] % 16) * 4 + bytes[3] \div 64,
            bytes[3] % 64 >>
         \o Base64Encode(SubSeq(bytes, 4, Len(bytes)))

\* index.ts:41-46, one attachment
MapAttachment(att) ==
    [filename |-> OrElse(att.filename, "attachment"),
     content |-> Base64Encode(att.content),
     contentType |-> att.contentType,
     content_id |-> att.cid]

RECURSIVE MapAll(_)
MapAll(atts) ==
    IF atts = <<>> THEN <<>> ELSE <<MapAttachment(Head(atts))>> \o MapAll(Tail(atts))

\* index.ts:34-47; defined is FALSE for the undefined result
mapAttachments(attachments) ==
    IF Len(attachments) = 0
    THEN [defined |-> FALSE, list |-> <<>>]
    ELSE [defined |-> TRUE, list |-> MapAll(attachments)]

Bytes == {0, 65, 255}

Attachments ==
    [filename : {Undefined, "", "a.txt"},
     content : SeqsUpTo(Bytes, MaxBytes),
     contentType : {"text/plain"},
     cid : {Undefined, "cid1"}]

\* mail.attachments: none, one, or two of which the second is fixed
AttachmentLists ==
    {<<>>} \cup {<<a>> : a \in Attachments}
    \cup {<<a, [filename |-> Undefined, content |-> <<255, 0>>,
                contentType |-> "text/plain", cid |-> Undefined]>> :
             a \in {x \in Attachments : x.cid = Undefined}}

(***************************************************************************)
(* The optional fields of the payload (index.ts:247-294): customHeaders    *)
(* and mapAttachments, each applied to one input.                          *)
(***************************************************************************)
InitFields ==
    /\ cfg = PlainConfig
    /\ ProcessRunning(cfg)
    /\ SessionsInit
    /\ fnIn \in {[fn |-> "headers", headers |-> h] : h \in HeaderMaps}
           \cup {[fn |-> "mapAttachments", attachments |-> a] : a \in AttachmentLists}
    /\ fnOut = NoFn

ApplyAttachments ==
    /\ fnIn.fn = "mapAttachments"
    /\ fnOut.fn = "none"
    /\ fnOut' = [fn |-> "mapAttachments", result |-> mapAttachments(fnIn.attachments)]
    /\ UNCHANGED <<cfg, sessionVars, fnIn, procVars>>

NextFields == ApplyHeaders \/ ApplyAttachments

SpecFields == InitFields /\ [][NextFields]_vars

(***************************************************************************)
(* toSafeJSON (index.ts:105-116) and the data field of the failure detail  *)
(* (index.ts:123, 129).  A value of the provider's error detail is a       *)
(* string, a Buffer, an object or array with child values, or an object    *)
(* that refers to itself; kids are the values of its properties.           *)
(***************************************************************************)
JVal(t, s, bytes, kids) == [t |-> t, s |-> s, bytes |-> bytes, kids |-> kids]

JUndefined == JVal("undefined", "", <<>>, <<>>)
JString(s) == JVal("string", s, <<>>, <<>>)
JBuffer(bytes) == JVal("buffer", "", bytes, <<>>)
JObject(kids) == JVal("object", "", <<>>, kids)
JCircular == JVal("circular", "", <<>>, <<>>)

\* Buffer.prototype.toJSON: { type: 'Buffer', data: [...bytes] }
BufferJSON(bytes) == JVal("bufferJSON", "Buffer", bytes, <<>>)

\* JSON.stringify calls a value's toJSON method before it calls the
\* replacer (ECMA-262 SerializeJSONProperty, steps 2 and 3)
toJSON(v) == IF v.t = "buffer" THEN BufferJSON(v.bytes) ELSE v

\* index.ts:110: (_, v) => v instanceof Buffer ? `<Buffer:${v.length}>` : v
replacer(v) ==
    IF v.t = "buffer" THEN JString("<Buffer:" \o ToString(Len(v.bytes)) \o ">") ELSE v

\* JSON.stringify throws on a value that refers to itself
RECURSIVE Throws(_)
Throws(v) == v.t = "circular" \/ \E i \in 1..Len(v.kids) : Throws(v.kids[i])

\* JSON.parse(JSON.stringify(v, replacer)) for a value that does not throw
RECURSIVE Serialize(_)
Serialize(v) ==
    LET w == replacer(toJSON(v))
    IN  [w EXCEPT !.kids = [i \in 1..Len(w.kids) |-> Serialize(w.kids[i])]]

\* index.ts:105-116
toSafeJSON(obj) ==
    IF Throws(obj) THEN JString("[object Object]") ELSE Serialize(obj)

JTruthy(v) == v.t # "undefined" /\ ~(v.t = "string" /\ v.s = "")

\* index.ts:123
responseData(err) ==
    IF JTruthy(err.data) THEN err.data
    ELSE IF JTruthy(err.responseData) THEN err.responseData
    ELSE IF JTruthy(err.errors) THEN err.errors
    ELSE JUndefined

\* index.ts:129
metaData(err) ==
    IF JTruthy(responseData(err)) THEN toSafeJSON(responseData(err)) ELSE JUndefined

JLeaves == {JString("msg"), JBuffer(<<>>), JBuffer(<<7>>), JBuffer(<<7, 9>>), JCircular}

JValues ==
    JLeaves
    \cup {JObject(<<a>>) : a \in JLeaves}
    \cup {JObject(<<a, b>>) : a \in JLeaves, b \in JLeaves}
    \cup {JObject(<<JObject(<<a>>)>>) : a \in JLeaves}

ErrorDetails ==
    [data : JValues \cup {JUndefined, JString("")},
     responseData : {JUndefined, JObject(<<JBuffer(<<7>>)>>)},
     errors : {JUndefined, JString("msg")}]

InitSafeJSON ==
    /\ cfg = PlainConfig
    /\ ProcessRunning(cfg)
    /\ SessionsInit
    /\ fnIn \in {[fn |-> "metaData", err |-> e] : e \in ErrorDetails}
    /\ fnOut = NoFn

ApplySafeJSON ==
    /\ fnIn.fn = "metaData"
    /\ fnOut.fn = "none"
    /\ fnOut' = [fn |-> "metaData", result |-> metaData(fnIn.err)]
    /\ UNCHANGED <<cfg, sessionVars, fnIn, procVars>>

NextSafeJSON == ApplySafeJSON

SpecSafeJSON == InitSafeJSON /\ [][NextSafeJSON]_vars

(***************************************************************************)
(* Two sessions in their data phases at once.  Both clients have connected *)
(* and had MAIL FROM and RCPT TO accepted, the first with the null sender; *)
(* from there the events of the two data phases interleave freely.         *)
(***************************************************************************)
ConcurrentEnvelope(s) ==
    IF s = "s1" THEN [mailFrom |-> "", rcptTo |-> <<"r1@x">>]
    ELSE [mailFrom |-> "env@x", rcptTo |-> <<"r2@x">>]

InitConcurrent ==
    /\ cfg = PlainConfig
    /\ ProcessRunning(cfg)
    /\ phase = [s \in Sessions |-> "AwaitingData"]
    /\ secure = [s \in Sessions |-> FALSE]
    /\ user = [s \in Sessions |-> Undefined]
    /\ lastAuth = [s \in Sessions |-> NoAuth]
    /\ envelope = [s \in Sessions |-> ConcurrentEnvelope(s)]
    /\ pc = [s \in Sessions |-> "idle"]
    /\ chunks = [s \in Sessions |-> <<>>]
    /\ raw = [s \in Sessions |-> <<>>]
    /\ payload = [s \in Sessions |-> NoPayload]
    /\ built = [s \in Sessions |-> 0]
    /\ sends = [s \in Sessions |-> 0]
    /\ outcome = [s \in Sessions |-> NoOutcome]
    /\ replies = [s \in Sessions |-> <<>>]
    /\ log = [s \in Sessions |-> <<>>]
    /\ fnIn = NoFn
    /\ fnOut = NoFn

DataPhaseStep(s) ==
    \/ Data(s)
    \/ \E l \in Lines : StreamData(s, l)
    \/ StreamEnd(s)
    \/ ParseDone(s)
    \/ \E res \in SendResults : SendDone(s, res)
    \/ Close(s)

NextConcurrent == DataPhaseStep("s1") \/ DataPhaseStep("s2")

SpecConcurrent == InitConcurrent /\ [][NextConcurrent]_vars


(***************************************************************************)
(* One data phase of one session whose message carries custom headers,     *)
(* among them a header whose value cannot be converted to a string.        *)
(***************************************************************************)
HeaderLines == {LineFrom, LineCustom, LineOdd}

InitHeaderPipeline ==
    /\ cfg = PlainConfig
    /\ ProcessRunning(cfg)
    /\ phase = [s \in Sessions |-> IF s = "s1" THEN "AwaitingData" ELSE "None"]
    /\ secure = [s \in Sessions |-> FALSE]
    /\ user = [s \in Sessions |-> Undefined]
    /\ lastAuth = [s \in Sessions |-> NoAuth]
    /\ envelope = [s \in Sessions |->
                      IF s = "s1" THEN [mailFrom |-> "env@x", rcptTo |-> <<"r1@x">>]
                      ELSE NoEnvelope]
    /\ pc = [s \in Sessions |-> "idle"]
    /\ chunks = [s \in Sessions |-> <<>>]
    /\ raw = [s \in Sessions |-> <<>>]
    /\ payload = [s \in Sessions |-> NoPayload]
    /\ built = [s \in Sessions |-> 0]
    /\ sends = [s \in Sessions |-> 0]
    /\ outcome = [s \in Sessions |-> NoOutcome]
    /\ replies = [s \in Sessions |-> <<>>]
    /\ log = [s \in Sessions |-> <<>>]
    /\ fnIn = NoFn
    /\ fnOut = NoFn

NextHeaderPipeline ==
    \/ Data("s1")
    \/ \E l \in HeaderLines : StreamData("s1", l)
    \/ StreamEnd("s1")
    \/ ParseDone("s1")
    \/ \E res \in SendResults : SendDone("s1", res)

SpecHeaderPipeline == InitHeaderPipeline /\ [][NextHeaderPipeline]_vars

(***************************************************************************)
(* Properties.                                                             *)
(***************************************************************************)

\* C1: every path of the handler calls the reply callback exactly once: no
\* call before the handler has finished, one call once it has, never two.
C1_ExactlyOneReply ==
    \A s \in Sessions :
        /\ Len(replies[s]) <= 1
        /\ pc[s] = "replied" => Len(replies[s]) = 1
        /\ pc[s] \in {"idle", "streaming", "parsing", "sending"} => replies[s] = <<>>

C1_Witness ==
    \E s \in Sessions :
        /\ pc[s] = "replied"
        /\ outcome[s].kind = "normalizeError"
        /\ Len(replies[s]) = 1

C3_Carries(e, n) ==
    \/ e.status = JsNum(n)
    \/ e.status = JsUndef /\ e.statusCode = JsNum(n)
    \/ e.status = JsUndef /\ e.statusCode = JsUndef /\ e.responseStatus = JsNum(n)

C3_ClassifierTable ==
    fnOut.fn = "classifySendFailure" =>
        LET e == fnIn.arg
            code == fnOut.result.code
        IN  /\ C3_Carries(e, 429) => code = 451
            /\ \A n \in 500..599 : C3_Carries(e, n) => code = 451
            /\ \A n \in (400..499) \ {429} : C3_Carries(e, n) => code = 550
            /\ (e.status = JsUndef /\ e.statusCode = JsUndef /\ e.responseStatus = JsUndef)
                   => code = 451

C3_Witness ==
    /\ fnOut.fn = "classifySendFailure"
    /\ fnIn.arg.status = JsUndef
    /\ fnIn.arg.statusCode = JsNum(429)
    /\ fnOut.result.code = 451

\* C4: an exception caught by the handler (parser rejection, missing sender
\* or recipients, a rejected send promise) is answered with 451, whatever
\* status the exception carries.
C4_InternalErrorIs451 ==
    \A s \in Sessions :
        (pc[s] = "replied" /\ outcome[s].kind \in {"parseError", "normalizeError", "sendThrew"})
            => /\ Len(replies[s]) = 1
               /\ replies[s][1].responseCode = 451

C4_Witness ==
    \E s \in Sessions :
        /\ pc[s] = "replied"
        /\ outcome[s].kind = "parseError"
        /\ replies[s][1].responseCode = 451

\* C5 as stated: every completed data phase has built exactly one payload
\* and made at most one send call.
C5_ExactlyOnePayload ==
    \A s \in Sessions :
        pc[s] = "replied" => (built[s] = 1 /\ sends[s] <= 1)

\* C5 amended: a data phase builds at most one payload and makes at most one
\* send call; a completed one has built exactly one payload and made exactly
\* one call when parsing and resolution succeeded, and none when they failed.
C5_AtMostOnePayload ==
    \A s \in Sessions :
        /\ built[s] <= 1
        /\ sends[s] <= 1
        /\ sends[s] = built[s]
        /\ pc[s] = "sending" => sends[s] = 1
        /\ (pc[s] = "replied" /\ outcome[s].kind \in {"success", "sendError", "sendThrew"})
               => (built[s] = 1 /\ sends[s] = 1)
        /\ (pc[s] = "replied" /\ outcome[s].kind \in {"parseError", "normalizeError"})
               => (built[s] = 0 /\ sends[s] = 0)

C5_Witness ==
    \E s \in Sessions :
        /\ pc[s] = "replied"
        /\ outcome[s].kind = "sendError"
        /\ built[s] = 1
        /\ sends[s] = 1

\* C6: a connection that drops while the body is streaming ends in Closed
\* with the handler still waiting for the end event, and from then on no
\* reply is sent and no send call is made.
C6_DropWhileStreaming ==
    [][\A s \in Sessions :
         /\ (pc[s] = "streaming" /\ phase[s] = "DataPhase" /\ phase'[s] # "DataPhase")
                => (phase'[s] = "Closed" /\ pc'[s] = "streaming")
         /\ (pc[s] = "streaming" /\ phase[s] = "Closed")
                => /\ replies[s] = <<>> /\ sends[s] = 0
                   /\ phase'[s] = "Closed" /\ pc'[s] = "streaming"
                   /\ replies'[s] = <<>> /\ sends'[s] = 0]_vars

C6_Witness ==
    \E s \in Sessions :
        /\ pc[s] = "streaming"
        /\ phase[s] = "Closed"
        /\ chunks[s] # <<>>

\* C7 as stated: once the connection has closed with the handler between the
\* end event and its reply, no send call is started and no reply is made.
C7_AbandonedAfterClose ==
    [][\A s \in Sessions :
         (phase[s] = "Closed" /\ pc[s] \in {"parsing", "sending"})
            => (sends'[s] = sends[s] /\ replies'[s] = replies[s])]_vars

\* C8: when the send call returns data and no error, the callback is called
\* without an error and the forwarded line carries the returned id and
\* messageId.
C8_SuccessReplyAndLog ==
    [][\A s \in Sessions :
         (pc[s] = "sending" /\ pc'[s] = "replied" /\ outcome'[s].kind = "success") =>
            /\ replies'[s] = <<ReplyOk>>
            /\ log'[s] = Append(log[s],
                   LogLine("forwarded", outcome'[s].id, outcome'[s].messageId, NoFailure))]_vars

C8_Witness ==
    \E s \in Sessions :
        /\ pc[s] = "replied"
        /\ outcome[s] = SendSuccess("m_1", "msg_1")
        /\ replies[s] = <<ReplyOk>>
        /\ \E i \in 1..Len(log[s]) :
              /\ log[s][i].kind = "forwarded"
              /\ log[s][i].id = "m_1"
              /\ log[s][i].messageId = "msg_1"

C10_PlaintextAuthRefused ==
    \A s \in Sessions :
        (SMTP_AUTH_ENABLED /\ ~allowInsecureAuth
         /\ lastAuth[s].attempted /\ ~lastAuth[s].secure)
            => (~lastAuth[s].compared /\ lastAuth[s].err # "")

\* C11: with auth enabled, the last AUTH command of a session succeeded
\* exactly when the username and the password it supplied are equal to the
\* configured ones; after a success the session's user is the configured
\* username, after a failure the command was answered with an error and the
\* session has no user.
C11_AuthIffCredentialsMatch ==
    \A s \in Sessions :
        (SMTP_AUTH_ENABLED /\ lastAuth[s].attempted) =>
            LET match == /\ lastAuth[s].username = SMTP_AUTH_USER
                         /\ lastAuth[s].password = SMTP_AUTH_PASS
            IN  /\ (lastAuth[s].err = "") <=> match
                /\ match => user[s] = SMTP_AUTH_USER
                /\ ~match => (lastAuth[s].err # "" /\ user[s] = Undefined)

C11_Witness ==
    \E s \in Sessions :
        /\ SMTP_AUTH_ENABLED
        /\ lastAuth[s].attempted
        /\ lastAuth[s].username = SMTP_AUTH_USER
        /\ lastAuth[s].password # SMTP_AUTH_PASS
        /\ lastAuth[s].err = "Invalid username or password"
        /\ user[s] = Undefined

\* C12: with auth disabled, AUTH is a disabled command, so no session ever
\* has an AUTH command dispatched or a credential compared; onAuth itself,
\* applied to any credentials, rejects without comparing them; and a
\* connected session with no user may issue MAIL FROM.
C12_AuthDisabledNoComparison ==
    ~SMTP_AUTH_ENABLED =>
        /\ "AUTH" \in disabledCommands
        /\ authOptional
        /\ \A u \in Usernames, p \in Passwords :
              /\ ~onAuth(u, p).compared
              /\ onAuth(u, p).err = "Authentication disabled"
              /\ onAuth(u, p).user = Undefined
        /\ \A s \in Sessions :
              /\ ~lastAuth[s].attempted
              /\ ~lastAuth[s].compared
              /\ user[s] = Undefined
              /\ phase[s] = "AwaitingEnvelope" => ENABLED MailFrom(s, "env@x")

C12_Witness ==
    \E s \in Sessions :
        /\ ~SMTP_AUTH_ENABLED
        /\ SMTP_AUTH_USER = "user"
        /\ phase[s] = "DataPhase"
        /\ user[s] = Undefined
        /\ ~lastAuth[s].attempted

\* C13: when the API key is absent, or auth is enabled without both a
\* username and a password, or TLS is required and the certificate or key
\* path is missing or the file unreadable, the process never reaches
\* server.listen: it is still in its startup checks with one of them about
\* to run, or it has exited with code 1; no client ever connects.
C13_BadStartup ==
    \/ processEnv.INBOUND_API_KEY \in {Undefined, ""}
    \/ /\ processEnv.SMTP_AUTH_ENABLED = "true"
       /\ \/ processEnv.SMTP_AUTH_USER = Undefined
          \/ processEnv.SMTP_AUTH_PASS = Undefined
    \/ /\ processEnv.SMTP_SECURE = "true"
       /\ \/ processEnv.TLS_CERT_PATH = Undefined
          \/ processEnv.TLS_KEY_PATH = Undefined
          \/ processEnv.TLS_CERT_PATH \notin files.readable
          \/ processEnv.TLS_KEY_PATH \notin files.readable

C13_StartupFailsFast ==
    C13_BadStartup =>
        /\ ~proc.listening
        /\ proc.at \in {"checkApiKey", "checkAuth", "loadTls", "exited"}
        /\ proc.at = "exited" => proc.exit = <<1>>
        /\ proc.at # "exited" => ENABLED (CheckApiKey \/ CheckAuthConfig \/ LoadTls)
        /\ \A s \in Sessions : phase[s] = "None"

C13_Witness ==
    /\ processEnv.INBOUND_API_KEY = "key"
    /\ processEnv.SMTP_AUTH_ENABLED = Undefined
    /\ processEnv.SMTP_SECURE = "true"
    /\ processEnv.TLS_CERT_PATH = CertPath
    /\ processEnv.TLS_KEY_PATH = KeyPath
    /\ CertPath \in files.readable
    /\ KeyPath \notin files.readable
    /\ proc.at = "exited"
    /\ proc.exit = <<1>>

\* C14 as stated: a SIGHUP delivered to the listening process leaves it
\* listening, leaves every session as it was, and makes the material the
\* process serves new connections with the material now on disk.
C14_SighupReloadsTls ==
    [][(proc.at = "listening" /\ proc.signal = "none" /\ proc'.signal = "SIGHUP") =>
          /\ proc'.at = "listening"
          /\ proc'.listening
          /\ \A s \in Sessions : phase'[s] = phase[s] /\ secure'[s] = secure[s]
          /\ SMTP_SECURE => proc'.tls = files.material]_vars

\* The entries of a parsed header that carry a mailbox address, each
\* rendered as the specification renders an address: 'Name <addr>' with a
\* display name, the bare address without.
C19_Rendered(v) ==
    IF v.name # "" THEN v.name \o " <" \o v.address \o ">" ELSE v.address

RECURSIVE C19_RenderedEntries(_)
C19_RenderedEntries(vs) ==
    IF vs = <<>> THEN <<>>
    ELSE (IF Head(vs).address \notin {Undefined, ""}
          THEN <<C19_Rendered(Head(vs))>> ELSE <<>>)
         \o C19_RenderedEntries(Tail(vs))

RECURSIVE C19_Addresses(_)
C19_Addresses(objs) ==
    IF objs = <<>> THEN <<>>
    ELSE C19_RenderedEntries(Head(objs).value) \o C19_Addresses(Tail(objs))

\* C15 as stated: when the From header is present and holds an address, the
\* payload's sender is the first address of the header, whatever
\* DEFAULT_FROM and the envelope's MAIL FROM are.
C15_SenderIsFirstFromAddress ==
    (fnOut.fn = "normalize" /\ C19_Addresses(fnIn.mail.from) # <<>>) =>
        /\ fnOut.result.error = ""
        /\ fnOut.result.payload.from = C19_Addresses(fnIn.mail.from)[1]

\* C16: when the message has no From header and DEFAULT_FROM is set, the
\* payload's sender is DEFAULT_FROM, whatever the envelope's MAIL FROM is.
C16_DefaultSenderBeforeEnvelope ==
    (fnOut.fn = "normalize" /\ fnIn.mail.from = <<>> /\ DEFAULT_FROM \notin {Undefined, ""}) =>
        /\ fnOut.result.error = ""
        /\ fnOut.result.payload.from = DEFAULT_FROM

C16_Witness ==
    /\ fnOut.fn = "normalize"
    /\ fnIn.mail.from = <<>>
    /\ DEFAULT_FROM = "default@x"
    /\ fnIn.envelope.mailFrom = "env@x"
    /\ fnOut.result.payload.from = "default@x"

\* C17: when the parsed message has no From header and DEFAULT_FROM is not
\* set, the handler's step after parsing takes the envelope's MAIL FROM as
\* the payload's sender and goes on to the send call; when MAIL FROM is
\* empty too, it builds no payload, makes no send call and replies 451.
C17_EnvelopeSenderOrError ==
    [][\A s \in Sessions :
         (/\ pc[s] = "parsing" /\ pc'[s] # "parsing"
          /\ \A i \in 1..Len(raw[s]) : raw[s][i] \notin {LineFrom, LineBad}
          /\ DEFAULT_FROM \in {Undefined, ""}) =>
            IF envelope[s].mailFrom \notin {Undefined, ""}
            THEN /\ pc'[s] = "sending"
                 /\ payload'[s].from = envelope[s].mailFrom
                 /\ replies'[s] = <<>>
            ELSE /\ pc'[s] = "replied"
                 /\ outcome'[s].kind = "normalizeError"
                 /\ replies'[s] = <<[message |-> "Error processing email",
                                     responseCode |-> 451]>>
                 /\ payload'[s] = NoPayload
                 /\ built'[s] = 0
                 /\ sends'[s] = 0]_vars

C17_Witness ==
    \E s \in Sessions :
        /\ DEFAULT_FROM = Undefined
        /\ raw[s] = <<LineTo>>
        /\ pc[s] = "replied"
        /\ outcome[s].kind = "normalizeError"
        /\ replies[s][1].responseCode = 451
        /\ sends[s] = 0

\* C18 as stated: when the To header holds at least one address the
\* payload's recipients are exactly the header's addresses; when it holds
\* none they are the envelope's RCPT TO addresses; when both are empty
\* processing fails with the missing-recipients error.
C18_RecipientsFromToOrEnvelope ==
    (/\ fnOut.fn = "normalize"
     /\ fnOut.result.error # "Missing From header and DEFAULT_FROM not set") =>
        LET addrs == C19_Addresses(fnIn.mail.to)
        IN  IF addrs # <<>>
            THEN fnOut.result.error = "" /\ fnOut.result.payload.to = addrs
            ELSE IF fnIn.envelope.rcptTo # <<>>
            THEN fnOut.result.error = "" /\ fnOut.result.payload.to = fnIn.envelope.rcptTo
            ELSE fnOut.result.error = "Missing To header and no RCPT TO addresses"

\* a is b with some of its elements left out
RECURSIVE C19_IsSubseq(_, _)
C19_IsSubseq(a, b) ==
    IF a = <<>> THEN TRUE
    ELSE IF b = <<>> THEN FALSE
    ELSE IF Head(a) = Head(b) THEN C19_IsSubseq(Tail(a), Tail(b))
    ELSE C19_IsSubseq(a, Tail(b))

C20_NoListedOrFamilyHeader ==
    fnOut.fn = "headers" =>
        \A k \in DOMAIN fnOut.result.map :
            ToLowerCase(k) \notin
                {"date", "from", "to", "cc", "bcc", "subject", "reply-to",
                 "message-id", "mime-version", "return-path", "sender",
                 "delivered-to", "received", "authentication-results",
                 "dkim-signature",
                 "content-type", "content-transfer-encoding", "content-disposition",
                 "content-id", "content-language",
                 "arc-seal", "arc-message-signature", "arc-authentication-results"}

\* C20 amended: no key of the custom-header map has a lowercased name in
\* the exclusion set, whose content- members are content-type,
\* content-transfer-encoding, content-disposition and content-id and whose
\* arc- members are arc-seal, arc-message-signature and
\* arc-authentication-results.
C20_NoExcludedHeader ==
    fnOut.fn = "headers" =>
        \A k \in DOMAIN fnOut.result.map :
            ToLowerCase(k) \notin
                {"date", "from", "to", "cc", "bcc", "subject", "reply-to", "reply_to",
                 "message-id", "messageid", "mime-version",
                 "content-type", "content-transfer-encoding", "content-disposition",
                 "content-id", "return-path", "sender", "delivered-to", "received",
                 "authentication-results", "dkim-signature",
                 "arc-seal", "arc-message-signature", "arc-authentication-results"}

C20_Witness ==
    /\ fnOut.fn = "headers"
    /\ fnIn.headers = <<[key |-> "Message-ID", value |-> HeaderStr("v")],
                        [key |-> "X-Custom", value |-> HeaderStr("v")]>>
    /\ DOMAIN fnOut.result.map = {"X-Custom"}

\* C21: the headers field is defined only with a non-empty map, and is
\* undefined when every header is excluded, null, empty or unconvertible;
\* the attachments field is defined only with a non-empty list, and is
\* undefined when the message has no attachment.
C21_NoEmptyOptionalField ==
    /\ fnOut.fn = "headers" =>
          /\ fnOut.result.defined => DOMAIN fnOut.result.map # {}
          /\ (\A i \in 1..Len(fnIn.headers) :
                 \/ ToLowerCase(fnIn.headers[i].key) \in DISALLOWED
                 \/ fnIn.headers[i].value \in {HeaderNull, HeaderStr(""), HeaderThrows})
                => ~fnOut.result.defined
    /\ fnOut.fn = "mapAttachments" =>
          /\ fnOut.result.defined => fnOut.result.list # <<>>
          /\ fnIn.attachments = <<>> => ~fnOut.result.defined
          /\ fnIn.attachments # <<>> => fnOut.result.defined

C21_Witness ==
    /\ fnOut.fn = "headers"
    /\ fnIn.headers = <<[key |-> "Message-ID", value |-> HeaderStr("v")],
                        [key |-> "x-custom", value |-> HeaderStr("")]>>
    /\ ~fnOut.result.defined

\* base64 decoding of a sequence of characters (RFC 4648)
RECURSIVE C23_Decode(_)
C23_Decode(chars) ==
    IF Len(chars) < 4 THEN <<>>
    ELSE (IF chars[3] = 64
          THEN << chars[1] * 4 + chars[2] \div 16 >>
          ELSE IF chars[4] = 64
          THEN << chars[1] * 4 + chars[2] \div 16,
                  (chars[2] % 16) * 16 + chars[3] \div 4 >>
          ELSE << chars[1] * 4 + chars[2] \div 16,
                  (chars[2] % 16) * 16 + chars[3] \div 4,
                  (chars[3] % 4) * 64 + chars[4] >>)
         \o C23_Decode(SubSeq(chars, 5, Len(chars)))

\* C23: each mapped attachment's content is a base64 string (characters of
\* the alphabet, padded to a multiple of four) that decodes to the bytes of
\* the original, and its filename is the original's, or 'attachment' when
\* the original has none.
C23_AttachmentRoundTrip ==
    (fnOut.fn = "mapAttachments" /\ fnIn.attachments # <<>>) =>
        /\ Len(fnOut.result.list) = Len(fnIn.attachments)
        /\ \A i \in 1..Len(fnIn.attachments) :
              LET att == fnIn.attachments[i]
                  out == fnOut.result.list[i]
              IN  /\ Len(out.content) % 4 = 0
                  /\ \A j \in 1..Len(out.content) : out.content[j] \in 0..64
                  /\ C23_Decode(out.content) = att.content
                  /\ out.filename = IF att.filename \in {Undefined, ""}
                                    THEN "attachment" ELSE att.filename

C23_Witness ==
    /\ fnOut.fn = "mapAttachments"
    /\ Len(fnIn.attachments) = 1
    /\ fnIn.attachments[1].filename = Undefined
    /\ fnIn.attachments[1].content = <<255, 0>>
    /\ fnOut.result.list[1].content = <<63, 48, 0, 64>>
    /\ fnOut.result.list[1].filename = "attachment"

\* a value holds bytes of a buffer
RECURSIVE C22_HoldsBytes(_)
C22_HoldsBytes(v) ==
    v.bytes # <<>> \/ \E i \in 1..Len(v.kids) : C22_HoldsBytes(v.kids[i])

\* out is v with every buffer replaced by the placeholder of its length
RECURSIVE C22_Redacted(_, _)
C22_Redacted(v, out) ==
    IF v.t = "buffer"
    THEN out = JString("<Buffer:" \o ToString(Len(v.bytes)) \o ">")
    ELSE /\ out.t = v.t
         /\ Len(out.kids) = Len(v.kids)
         /\ \A i \in 1..Len(v.kids) : C22_Redacted(v.kids[i], out.kids[i])

C24_FailureContained ==
    [][\A s \in Sessions, t \in Sessions :
         (/\ s # t
          /\ pc[s] \in {"parsing", "sending"}
          /\ pc'[s] = "replied"
          /\ outcome'[s].kind \in {"parseError", "normalizeError", "sendError", "sendThrew"}) =>
            /\ proc.listening /\ proc' = proc
            /\ replies'[t] = replies[t]
            /\ payload'[t] = payload[t]
            /\ pc'[t] = pc[t]
            /\ phase'[t] = phase[t]
            /\ envelope'[t] = envelope[t]]_vars

C24_Witness ==
    /\ pc["s1"] = "replied"
    /\ outcome["s1"].kind = "normalizeError"
    /\ pc["s2"] = "sending"
    /\ payload["s2"].from = "env@x"
    /\ replies["s2"] = <<>>
    /\ proc.listening

\* C25: the handler's step that ends a data phase in a parse, resolution or
\* delivery error replies 451 or 550, never closes the connection, and
\* leaves an open session in the envelope state with the guard of MAIL FROM
\* true (auth not required, or the session still authenticated), so that a
\* further transaction can follow.
C25_ErrorEndsOnlyTransaction ==
    [][\A s \in Sessions :
         (/\ pc[s] \in {"parsing", "sending"}
          /\ pc'[s] = "replied"
          /\ outcome'[s].kind \in {"parseError", "normalizeError", "sendError", "sendThrew"}) =>
            /\ Len(replies'[s]) = 1
            /\ replies'[s][1].responseCode \in {451, 550}
            /\ phase'[s] = "Closed" => phase[s] = "Closed"
            /\ phase[s] = "DataPhase" =>
                  /\ phase'[s] = "AwaitingEnvelope"
                  /\ user'[s] = user[s]
                  /\ authOptional \/ user'[s] # Undefined]_vars

C25_Witness ==
    \E s \in Sessions :
        /\ SMTP_AUTH_ENABLED
        /\ pc[s] = "replied"
        /\ outcome[s] = SendError(Err503)
        /\ replies[s][1].responseCode = 451
        /\ phase[s] = "AwaitingEnvelope"
        /\ user[s] = "user"
        /\ ENABLED MailFrom(s, "env@x")

C28_Secrets == {processEnv.INBOUND_API_KEY, SMTP_AUTH_PASS} \ {Undefined}

\* no string of the configuration summary or of a session's console lines
\* is a credential
C28_NoSecretLogged ==
    /\ \A f \in DOMAIN ConfigSummary : ConfigSummary[f] \notin C28_Secrets
    /\ \A s \in Sessions : \A i \in 1..Len(log[s]) :
          log[s][i].id \notin C28_Secrets /\ log[s][i].messageId \notin C28_Secrets

\* a connect and a disconnect each write exactly one line
C28_ConnectAndCloseLines(s) ==
    /\ (phase[s] = "None" /\ phase'[s] # "None") =>
          log'[s] = Append(log[s], LogLine("connected", Undefined, Undefined, NoFailure))
    /\ (phase[s] # "Closed" /\ phase'[s] = "Closed") =>
          log'[s] = Append(log[s], LogLine("disconnected", Undefined, Undefined, NoFailure))

C29_PresencePrecedence ==
    fnOut.fn = "classifySendFailure" =>
        LET e == fnIn.arg
        IN  fnOut.result.meta.status =
                IF e.status # JsUndef THEN e.status
                ELSE IF e.statusCode # JsUndef THEN e.statusCode
                ELSE e.responseStatus

\* C29 amended: the status classified is the first of status, statusCode
\* and response.status that is truthy (present, not 0, not empty), and
\* response.status when none is; a field is passed over only when it is
\* absent or falsy, and the reply code follows the status chosen.
C29_TruthyPrecedence ==
    fnOut.fn = "classifySendFailure" =>
        LET e == fnIn.arg
            truthy(v) == (v.t = "string" /\ v.s # "") \/ (v.t = "number" /\ v.n # 0)
            chosen == IF truthy(e.status) THEN e.status
                      ELSE IF truthy(e.statusCode) THEN e.statusCode
                      ELSE e.responseStatus
        IN  /\ fnOut.result.meta.status = chosen
            /\ (fnOut.result.code = 550) <=>
                  (chosen.t = "number" /\ chosen.n \in 400..499 /\ chosen.n # 429)

C29_Witness ==
    /\ fnOut.fn = "classifySendFailure"
    /\ fnIn.arg.status = JsNum(0)
    /\ fnIn.arg.statusCode = JsNum(403)
    /\ fnIn.arg.responseStatus = JsNum(503)
    /\ fnOut.result.meta.status = JsNum(403)
    /\ fnOut.result.code = 550

\* C30: a send call has been made only with the sender and the recipients
\* of the payload resolved; a data phase whose parsing or resolution failed
\* has made no send call, and its reply and console line are those of the
\* catch block, not of classifySendFailure.
C30_SendOnlyAfterResolution ==
    \A s \in Sessions :
        /\ (sends[s] >= 1 \/ pc[s] = "sending") =>
              /\ payload[s].from \notin {Undefined, ""}
              /\ payload[s].to # <<>>
              /\ built[s] = 1
        /\ pc[s] \in {"idle", "streaming", "parsing"} => sends[s] = 0
        /\ (pc[s] = "replied" /\ outcome[s].kind \in {"parseError", "normalizeError"}) =>
              /\ sends[s] = 0
              /\ payload[s] = NoPayload
              /\ replies[s] = <<smtpError("Error processing email", 451)>>
              /\ \A i \in 1..Len(log[s]) :
                    log[s][i].kind # "sendError" /\ log[s][i].failure = NoFailure

C30_Witness ==
    \E s \in Sessions :
        /\ pc[s] = "replied"
        /\ outcome[s].kind = "normalizeError"
        /\ raw[s] = <<LineTo, LineTo>>
        /\ sends[s] = 0
        /\ Len(log[s]) = 1
        /\ log[s][1].kind = "processingError"

\* C31: parsing and the send call do not start before the stream's end
\* event: while the body is being received nothing has been parsed, built
\* or sent; and from the end event on, the raw message given to the parser
\* is the chunks of this data phase, all of them, in the order they arrived.
C31_FullAccumulation ==
    \A s \in Sessions :
        /\ pc[s] \in {"idle", "streaming"} =>
              /\ raw[s] = <<>>
              /\ built[s] = 0
              /\ sends[s] = 0
              /\ payload[s] = NoPayload
              /\ replies[s] = <<>>
        /\ pc[s] \in {"parsing", "sending", "replied"} =>
              /\ Len(raw[s]) = Len(chunks[s])
              /\ \A i \in 1..Len(chunks[s]) : chunks[s][i] = <<raw[s][i]>>

C31_Witness ==
    \E s \in Sessions :
        /\ pc[s] = "sending"
        /\ chunks[s] = << <<LineFrom>>, <<LineTo>> >>
        /\ raw[s] = <<LineFrom, LineTo>>
        /\ sends[s] = 1

\* C32: with two sessions in their data phases interleaved in every way, a
\* step changes the chunks, raw message, payload, outcome, replies and
\* handler position of one session only; a session's raw message is its own
\* chunks; and its payload and reply are those that its own raw message,
\* its own envelope and its own delivery outcome give.
C32_Own(s) ==
    LET mail == simpleParser(raw[s])
        r == BuildPayload(mail, ConcurrentEnvelope(s))
        resolved == ~mail.failed /\ r.error = ""
    IN  /\ pc[s] \in {"parsing", "sending", "replied"} =>
              raw[s] = Concat(chunks[s])
        /\ pc[s] = "sending" => resolved /\ payload[s] = r.payload
        /\ pc[s] = "replied" =>
              IF ~resolved
              THEN /\ payload[s] = NoPayload
                   /\ replies[s] = <<smtpError("Error processing email", 451)>>
              ELSE /\ payload[s] = r.payload
                   /\ replies[s] =
                        CASE outcome[s].kind = "success" -> <<ReplyOk>>
                          [] outcome[s].kind = "sendError" ->
                               RepliesOnSendError(classifySendFailure(outcome[s].error))
                          [] OTHER -> <<smtpError("Error processing email", 451)>>

C32_Touched(s) ==
    \/ chunks'[s] # chunks[s]
    \/ raw'[s] # raw[s]
    \/ payload'[s] # payload[s]
    \/ outcome'[s] # outcome[s]
    \/ replies'[s] # replies[s]
    \/ pc'[s] # pc[s]
    \/ sends'[s] # sends[s]

C32_SessionIsolation ==
    /\ [](\A s \in Sessions : C32_Own(s))
    /\ [][\A s, t \in Sessions : (s # t /\ C32_Touched(s)) => ~C32_Touched(t)]_vars

C32_Witness ==
    /\ pc["s1"] = "replied"
    /\ chunks["s1"] = << <<LineFrom>> >>
    /\ payload["s1"].to = <<"r1@x">>
    /\ replies["s1"] = <<ReplyOk>>
    /\ pc["s2"] = "replied"
    /\ chunks["s2"] = << <<LineTo>>, <<LineTo>> >>
    /\ payload["s2"].from = "env@x"
    /\ outcome["s2"].error = Err403
    /\ replies["s2"][1].responseCode = 550

\* C33: classifySendFailure returns a code for every error value, null, a
\* string and objects with any mix of absent, zero, string and numeric
\* status fields included; the code is 451 or 550, and it is 550 exactly
\* when the first truthy one of status, statusCode and response.status is a
\* number from 400 to 499 other than 429.
C33_Extracted(e) ==
    IF e.status \notin {JsUndef, JsNum(0), JsStr("")} THEN e.status
    ELSE IF e.statusCode \notin {JsUndef, JsNum(0), JsStr("")} THEN e.statusCode
    ELSE e.responseStatus

C33_TotalWithTwoCodes ==
    fnOut.fn = "classifySendFailure" =>
        LET x == C33_Extracted(fnIn.arg)
            code == fnOut.result.code
        IN  /\ code \in {451, 550}
            /\ code = 550 <=> (x.t = "number" /\ x.n \in (400..499) \ {429})

C33_Witness ==
    /\ fnOut.fn = "classifySendFailure"
    /\ fnIn.arg.status = JsNum(0)
    /\ fnIn.arg.statusCode = JsStr("403")
    /\ fnIn.arg.responseStatus = JsNum(399)
    /\ fnOut.result.code = 451

\* C34: the step of the handler that makes the send call hands over a
\* payload whose sender is a non-empty string and whose recipient list has
\* at least one entry, none of them the empty string; and a step that ends
\* parsing without a sender or without a recipient makes no send call.
C34_SendsOnlyAddressedPayload ==
    [][\A s \in Sessions :
         /\ sends'[s] # sends[s] /\ sends'[s] > 0 =>
               /\ pc[s] = "parsing" /\ pc'[s] = "sending"
               /\ sends'[s] = sends[s] + 1
               /\ payload'[s].from \notin {Undefined, ""}
               /\ Len(payload'[s].to) >= 1
               /\ \A i \in 1..Len(payload'[s].to) : payload'[s].to[i] \notin {Undefined, ""}
         /\ (/\ pc[s] = "parsing" /\ pc'[s] # "parsing"
             /\ \/ payload'[s].from \in {Undefined, ""}
                \/ payload'[s].to = <<>>) =>
               /\ sends'[s] = sends[s]
               /\ pc'[s] = "replied"
               /\ replies'[s] = <<smtpError("Error processing email", 451)>>]_vars

C34_Witness ==
    \E s \in Sessions :
        /\ pc[s] = "sending"
        /\ sends[s] = 1
        /\ raw[s] = <<LineTo>>
        /\ DEFAULT_FROM \in {Undefined, ""}
        /\ payload[s].from = "env@x"
        /\ payload[s].to = <<"b@y">>

\* C35 as stated: every string that addressList returns is the rendering of
\* an entry that carries a mailbox address; an entry with a display name
\* and no address contributes no string, so nothing of the form 'Name <>'
\* is returned.
C35_EveryStringHasAddress ==
    fnOut.fn = "addressList" =>
        /\ fnOut.result = C19_Addresses(fnIn.input)
        /\ \A i \in 1..Len(fnOut.result) :
              \A e \in AddressEntries :
                 e.name # "" => fnOut.result[i] # e.name \o " <>"

\* C36: the payload and the reply of a data phase are fixed by the raw
\* message, the envelope, DEFAULT_FROM and the delivery outcome alone: the
\* step that ends parsing and the step that ends the send call produce the
\* payload and the reply given below, in which LOG_LEVEL does not occur, in
\* runs with LOG_LEVEL=silent and in runs with LOG_LEVEL=info alike.
C36_Payload(s) ==
    LET hasFrom == \E i \in 1..Len(raw[s]) : raw[s][i] = LineFrom
        tos == SelectSeq(raw[s], LAMBDA l : l = LineTo)
        sender == IF hasFrom THEN "A <a@x>"
                  ELSE IF DEFAULT_FROM \notin {Undefined, ""} THEN DEFAULT_FROM
                  ELSE envelope[s].mailFrom
        rcpts == IF tos # <<>> THEN [i \in 1..Len(tos) |-> "b@y"] ELSE envelope[s].rcptTo
    IN  IF (\E i \in 1..Len(raw[s]) : raw[s][i] = LineBad) \/ sender \in {Undefined, ""}
           \/ rcpts = <<>>
        THEN NoPayload
        ELSE [from |-> sender, to |-> rcpts,
              headers |-> [defined |-> FALSE, map |-> [k \in {} |-> ""]]]

C36_ReplyCode(oc) ==
    LET e == oc.error
        x == IF e.status \notin {JsUndef, JsNum(0)} THEN e.status
             ELSE IF e.statusCode \notin {JsUndef, JsNum(0)} THEN e.statusCode
             ELSE e.responseStatus
    IN  CASE oc.kind = "success" -> 250
          [] oc.kind = "sendError" /\ x.t = "number" /\ x.n >= 400 /\ x.n < 500 /\ x.n # 429 -> 550
          [] OTHER -> 451

C36_ReplyIgnoresVerbosity ==
    [][\A s \in Sessions :
         /\ (pc[s] = "parsing" /\ pc'[s] # "parsing") =>
               /\ payload'[s] = C36_Payload(s)
               /\ IF C36_Payload(s) = NoPayload
                  THEN /\ Len(replies'[s]) = 1
                       /\ replies'[s][1].responseCode = 451
                  ELSE replies'[s] = <<>> /\ pc'[s] = "sending"
         /\ (pc[s] = "sending" /\ pc'[s] # "sending") =>
               /\ payload'[s] = payload[s]
               /\ Len(replies'[s]) = 1
               /\ replies'[s][1] = IF outcome'[s].kind = "success" THEN ReplyOk
                                   ELSE [replies'[s][1] EXCEPT
                                            !.responseCode = C36_ReplyCode(outcome'[s])]
               /\ replies'[s][1] # ReplyOk => replies'[s][1].responseCode # 250]_vars

C36_Witness ==
    \E s \in Sessions :
        /\ LOG_LEVEL = "silent"
        /\ pc[s] = "replied"
        /\ outcome[s].kind = "sendError"
        /\ outcome[s].error = Err403
        /\ replies[s][1].responseCode = 550
        /\ payload[s].from = "A <a@x>"
        /\ \A i \in 1..Len(log[s]) : log[s][i].kind # "sendError"

\* C37: a header whose mapping throws does not fail the transaction: the
\* data phase goes on to the send call, with a payload whose headers are
\* those collected before the throwing header (none, and then the field is
\* absent, when no custom header precedes it), and the reply is the one the
\* delivery outcome gives, never the 451 of an internal error.
RECURSIVE C37_Joined(_)
C37_Joined(n) == IF n <= 1 THEN "v" ELSE "v, " \o C37_Joined(n - 1)

C37_Collected(rawLines) ==
    LET customs == {i \in 1..Len(rawLines) : rawLines[i] = LineCustom}
        odds == {i \in 1..Len(rawLines) : rawLines[i] = LineOdd}
    IN  IF \E i \in customs : \A j \in odds : i < j
        THEN [defined |-> TRUE,
              map |-> [k \in {"x-custom"} |-> C37_Joined(Cardinality(customs))]]
        ELSE [defined |-> FALSE, map |-> [k \in {} |-> ""]]

C37_HeaderFailureSwallowed ==
    \A s \in Sessions :
        /\ pc[s] \in {"sending", "replied"} =>
              /\ sends[s] = 1
              /\ built[s] = 1
              /\ payload[s].headers = C37_Collected(raw[s])
        /\ pc[s] = "replied" =>
              /\ outcome[s].kind \in {"success", "sendError", "sendThrew"}
              /\ outcome[s].kind = "success" => replies[s] = <<ReplyOk>>

C37_Witness ==
    \E s \in Sessions :
        /\ pc[s] = "replied"
        /\ raw[s] = <<LineCustom, LineOdd>>
        /\ sends[s] = 1
        /\ payload[s].headers.defined
        /\ payload[s].headers.map["x-custom"] = "v"
        /\ replies[s] = <<ReplyOk>>

====
